---- MODULE Spec2Model ----
(***************************************************************************)
(* A state-machine model of the OpenQuant API services                     *)
(* (src/openquant/apps/api/app): the Pine Script generator, the prop-firm  *)
(* simulator and its endpoint, the streaming chat endpoint, the feature    *)
(* parser of edge discovery, the backtest, Monte Carlo, edge-discovery and *)
(* regression services and the retrieval store.                            *)
(*                                                                         *)
(* Each service has its own specification (SpecPine, SpecChat,             *)
(* SpecFeature, SpecProp, SpecBacktest, SpecMonteCarlo, SpecAnalyze,       *)
(* SpecRegression, SpecStore, SpecTrial, SpecFunded) over the shared       *)
(* variables; the variables of the other services stay at their initial    *)
(* values.                                                                 *)
(*                                                                         *)
(* Text is modelled as a sequence of tokens.  A token is a run of          *)
(* characters that the code only ever inspects as a whole: the version     *)
(* pragma, a declaration such as "strategy(" (which carries one "("), a    *)
(* markdown fence (three backquotes, written "FENCE"), a keyword of a      *)
(* description, a blank.                                                   *)
(***************************************************************************)
EXTENDS Integers, Sequences, FiniteSets, TLC

VARIABLES
    \* ---- PineScriptGenerator (services/pine_generator.py)
    llm,            \* self.llm is set (an LLM client is configured)
    rag,            \* self.rag is set
    pinePc,         \* "idle" | "generating" | "fixing" | "returned": one call is
                    \* followed from its entry to its return (the generator keeps
                    \* no state between calls)
    call,           \* the arguments of the call in progress / last returned
    current_code,   \* fix_compile_errors: current_code
    current_error,  \* fix_compile_errors: current_error (message tokens)
    iteration,      \* fix_compile_errors: the loop variable
    llmCalls,       \* number of llm.complete calls made by the current call
    lastPrompt,     \* the code and error text given to the most recent llm.complete
    lastReply,      \* what the most recent llm.complete did: a text or a raise
    ragOutcome,     \* what rag.retrieve did in the current generate call
    result,         \* the returned dict (or NoResult)
    \* ---- chat_endpoint (routers/chat.py) over LLMService.stream
    chatPc,         \* "idle" | "streaming" | "completing" | "closed"
    chunks,         \* the upstream chunks' delta.content so far, "" for none
    upstream,       \* "open" | "ended" | "failed": the upstream stream
    frames,         \* the server-sent-event frames sent so far
    chatResponse,   \* the non-streaming response (or NoResult)
    \* ---- EdgeDiscoveryService._parse_feature_description
    edge_llm,       \* self.llm is set
    featPc,         \* "idle" | "asking" | "returned"
    feature_description,  \* the description argument
    featReply,      \* what llm.complete did
    feature_logic,  \* the returned dict (or NoResult)
    \* ---- PropFirmSimulator (services/prop_firm_simulator.py) and
    \* ---- simulate_prop_firm (routers/prop_firm.py)
    propPc,         \* "idle" | "phase1" | "phase2" | "funded" | "done"
    viaEndpoint,    \* the call came through POST /prop-firm/simulate
    daily_returns,  \* the daily_returns argument, in percent
    prop_firm,      \* the prop_firm argument: a member of one of the two classes
    custom_rules,   \* the custom_rules argument (None or a rule record)
    n_simulations,  \* self.n_simulations
    rules,          \* simulate_challenge: rules
    phaseCalls,     \* the arguments of the _simulate_phase calls made so far
    results,        \* simulate_challenge: results
    trialNo,        \* trials finished in the running simulation loop
    counts,         \* _simulate_phase: passed, failed_*, days_to_pass
    walkedOut,      \* per _simulate_phase call: the trials whose walk reached the
                    \* end of the array with neither a pass nor a failure
    lastTrial,      \* how the most recent phase trial ended
    violation_count,  \* _simulate_funded_account: violation_count
    monthly_profits,  \* _simulate_funded_account: monthly_profits
    propOutcome,    \* what simulate_challenge did: a return or a raise
    httpResponse,   \* the endpoint's response (or NoResponse)
    \* ---- BacktestService (services/backtest_service.py) behind POST /backtest/run
    backtests,       \* the requests served so far: arguments, price history, response
    \* ---- MonteCarloService (services/monte_carlo_service.py)
    mcPc,           \* run_full_analysis: "idle" or "done"
    mc_results,     \* run_full_analysis: what the summary reads of results
    mc_summary,      \* results["summary"]
    mc_request,     \* POST /monte-carlo/analyze: the request's n_simulations field
                    \* (None before a request and for a direct call)
    mc_trials,      \* the passes each analysis made of its simulation loop
    \* ---- EdgeDiscoveryService.analyze_feature (services/edge_discovery.py)
    analyzePc,      \* analyze_feature, from the statistical tests on: "idle" or "done"
    stats_results,  \* analyze_feature: stats_results
    ml_results,     \* analyze_feature: ml_results
    recommendation,  \* the report's "recommendation": <<label, description>>, joined by " - "
    \* ---- RegressionService (services/regression_service.py) behind POST /regression/analyze
    regressionPc,   \* run_regression_analysis: "idle" or "done"
    request_trades, \* request.trades
    regressionOutcome,  \* what RegressionService.analyze did: a return or a raise
    regressionResponse,  \* the endpoint's response
    \* ---- PineScriptRAG (rag/pine_rag.py): the Retrieval Store
    collection,     \* the persisted collection: document id -> document and metadata
    constructions,  \* PineScriptRAG constructions completed over the directory
    live,            \* the running process holds a constructed store
    added,          \* name -> the description and code of the latest add_example call
    example_code,   \* the latest get_example_code call: its name and what it returned
    \* ---- one trial of PropFirmSimulator._simulate_phase, day by day
    walkPc,         \* "idle" | "walking" | "ended"
    walkArgs,       \* the arguments of the _simulate_phase call
    walkReturns,    \* shuffled_returns
    walk,           \* the trial's locals: day, equity, peak_equity, trailing_floor,
                    \* daily_pnl_history, phase_passed, fail_reason
    walkTally,       \* the counters after the trial: passed, failed_*, days_to_pass
    \* ---- PropFirmSimulator._simulate_funded_account, day by day
    accountPc,      \* "idle" | "walking" | "done"
    accountCall,    \* the arguments: daily_returns, rules, self.n_simulations
    account,        \* the trial's locals: equity, month_start_equity, monthly_pnl,
                    \* violated, idx (days read), daily_return (the last one read),
                    \* extended_returns (the part not read yet) and the non-zero
                    \* returns read so far
    accountTally,   \* trials finished, violation_count, monthly_profits
    accountReport   \* the returned dict (or None)

pineVars == <<llm, rag, pinePc, call, current_code, current_error, iteration,
              llmCalls, lastPrompt, lastReply, ragOutcome, result>>

chatVars == <<chatPc, chunks, upstream, frames, chatResponse>>

featVars == <<edge_llm, featPc, feature_description, featReply, feature_logic>>

propVars == <<propPc, viaEndpoint, daily_returns, prop_firm, custom_rules, n_simulations,
              rules, phaseCalls, results, trialNo, counts, walkedOut, lastTrial,
              violation_count, monthly_profits, propOutcome, httpResponse>>

mcVars == <<mcPc, mc_results, mc_summary, mc_request, mc_trials>>

analyzeVars == <<analyzePc, stats_results, ml_results, recommendation>>

regressionVars == <<regressionPc, request_trades, regressionOutcome, regressionResponse>>

storeVars == <<collection, constructions, live, added, example_code>>

trialVars == <<walkPc, walkArgs, walkReturns, walk, walkTally>>

accountVars == <<accountPc, accountCall, account, accountTally, accountReport>>

vars == <<pineVars, chatVars, featVars, propVars, backtests, mcVars, analyzeVars, regressionVars, storeVars, trialVars, accountVars>>

otherThanPine == <<chatVars, featVars, propVars, backtests, mcVars, analyzeVars, regressionVars, storeVars, trialVars, accountVars>>
otherThanChat == <<pineVars, featVars, propVars, backtests, mcVars, analyzeVars, regressionVars, storeVars, trialVars, accountVars>>
otherThanFeat == <<pineVars, chatVars, propVars, backtests, mcVars, analyzeVars, regressionVars, storeVars, trialVars, accountVars>>
otherThanProp == <<pineVars, chatVars, featVars, backtests, mcVars, analyzeVars, regressionVars, storeVars, trialVars, accountVars>>
otherThanBacktest == <<pineVars, chatVars, featVars, propVars, mcVars, analyzeVars, regressionVars, storeVars, trialVars, accountVars>>
otherThanMonteCarlo == <<pineVars, chatVars, featVars, propVars, backtests, analyzeVars, regressionVars, storeVars, trialVars, accountVars>>
otherThanAnalyze == <<pineVars, chatVars, featVars, propVars, backtests, mcVars, regressionVars, storeVars, trialVars, accountVars>>
otherThanRegression == <<pineVars, chatVars, featVars, propVars, backtests, mcVars, analyzeVars, storeVars, trialVars, accountVars>>
otherThanStore == <<pineVars, chatVars, featVars, propVars, backtests, mcVars, analyzeVars, regressionVars, trialVars, accountVars>>
otherThanTrial == <<pineVars, chatVars, featVars, propVars, backtests, mcVars, analyzeVars, regressionVars, storeVars, accountVars>>
otherThanAccount == <<pineVars, chatVars, featVars, propVars, backtests, mcVars, analyzeVars, regressionVars, storeVars, trialVars>>

\* ------------------------------------------------------------------ bounds

\* largest max_iterations a caller passes to fix_compile_errors
MaxIterations == 3
\* largest number of words in a description
MaxWords == 2
\* largest number of chunks the upstream stream delivers
MaxChunks == 3
\* largest number of daily returns in a simulation request
MaxDays == 3
\* largest n_simulations
MaxSims == 2
\* largest number of bars after the flat start of a price series
MaxTail == 5

\* ------------------------------------------------------------------- text

Whitespace == {" ", "\n"}

Min(S) == CHOOSE x \in S : \A y \in S : x <= y

RECURSIVE LStrip(_)
LStrip(s) == IF s # <<>> /\ Head(s) \in Whitespace THEN LStrip(Tail(s)) ELSE s

RECURSIVE RStrip(_)
RStrip(s) ==
    IF s = <<>> THEN s
    ELSE IF s[Len(s)] \in Whitespace THEN RStrip(SubSeq(s, 1, Len(s) - 1))
    ELSE IF s[Len(s)] = "var " THEN SubSeq(s, 1, Len(s) - 1) \o <<"var">>
    ELSE s

\* str.strip(): leading and trailing blanks and newlines removed
Strip(s) == RStrip(LStrip(s))

\* number of characters of a token
TokLen(t) ==
    CASE t \in {"//@version=5", "//@version=4"} -> 12
      [] t \in {"indicator(", "pinescript"} -> 10
      [] t \in {"strategy(", "bollinger", "crossover"} -> 9
      [] t = "library(" -> 8
      [] t \in {"version"} -> 7
      [] t \in {"study(", "volume"} -> 6
      [] t \in {"var ", "pine", "macd"} -> 4
      [] t \in {"FENCE", "rsi", "RSI", "ema", "var", "foo"} -> 3
      [] OTHER -> 1

\* occurrences of the character ch in the token t (0 or 1 for every token used)
Occ(t, ch) ==
    CASE ch = "(" -> IF t \in {"(", "indicator(", "strategy(", "library(", "study("}
                     THEN 1 ELSE 0
      [] ch = "=" -> IF t \in {"=", "//@version=5", "//@version=4"} THEN 1 ELSE 0
      [] OTHER -> IF t = ch THEN 1 ELSE 0

\* str.count(ch) for a single character
Count(code, ch) == Cardinality({i \in 1..Len(code) : Occ(code[i], ch) = 1})

\* the test (sub in code) for a token-sized substring
Contains(code, sub) == \E i \in 1..Len(code) : code[i] = sub

\* the body of the first fenced block as the first regular expression of
\* _extract_code finds it (withLang: fence, optional pinescript/pine tag, optional
\* newline, shortest body, fence) or the second does (no language tag)
FencedBlock(text, withLang) ==
    LET fences == {i \in 1..Len(text) : text[i] = "FENCE"}
    IN  IF Cardinality(fences) < 2 THEN [found |-> FALSE, body |-> <<>>]
        ELSE LET open == Min(fences)
                 close == Min(fences \ {open})
                 afterLang == IF withLang /\ text[open + 1] \in {"pinescript", "pine"}
                              THEN open + 2 ELSE open + 1
                 start == IF text[afterLang] = "\n" THEN afterLang + 1 ELSE afterLang
             IN  [found |-> TRUE, body |-> SubSeq(text, start, close - 1)]

\* _extract_code
ExtractCode(text) ==
    IF FencedBlock(text, TRUE).found THEN Strip(FencedBlock(text, TRUE).body)
    ELSE IF FencedBlock(text, FALSE).found THEN Strip(FencedBlock(text, FALSE).body)
    ELSE Strip(text)

\* the 50 characters inspected after the first "var "
VarWindow == 50

RECURSIVE CharLen(_)
CharLen(s) == IF s = <<>> THEN 0 ELSE TokLen(Head(s)) + CharLen(Tail(s))

\* "=" occurs in code[var_idx : var_idx + 50]
EqualsInWindow(code) ==
    LET var_idx == Min({i \in 1..Len(code) : code[i] = "var "})
    IN  \E j \in var_idx..Len(code) :
            /\ Occ(code[j], "=") = 1
            /\ CharLen(SubSeq(code, var_idx, j)) <= VarWindow

\* an error list that reports the brackets before the parentheses
ValidationErrorsBracketsFirst(code) ==
    (IF ~Contains(code, "//@version=5") /\ ~Contains(code, "//@version=4")
     THEN <<"Missing version declaration (//@version=5)">> ELSE <<>>)
    \o (IF ~Contains(code, "indicator(") /\ ~Contains(code, "strategy(")
           /\ ~Contains(code, "library(")
        THEN <<"Missing indicator(), strategy(), or library() declaration">> ELSE <<>>)
    \o (IF Count(code, "[") # Count(code, "]") THEN <<"Mismatched brackets">> ELSE <<>>)
    \o (IF Count(code, "(") # Count(code, ")") THEN <<"Mismatched parentheses">> ELSE <<>>)

\* _validate_pine_syntax: errors
ValidationErrors(code) ==
    (IF ~Contains(code, "//@version=5") /\ ~Contains(code, "//@version=4")
     THEN <<"Missing version declaration (//@version=5)">> ELSE <<>>)
    \o (IF ~Contains(code, "indicator(") /\ ~Contains(code, "strategy(")
           /\ ~Contains(code, "library(")
        THEN <<"Missing indicator(), strategy(), or library() declaration">> ELSE <<>>)
    \o (IF Count(code, "(") # Count(code, ")") THEN <<"Mismatched parentheses">> ELSE <<>>)
    \o (IF Count(code, "[") # Count(code, "]") THEN <<"Mismatched brackets">> ELSE <<>>)

ValidationWarnings(code) ==
    (IF Contains(code, "var ") /\ ~EqualsInWindow(code)
     THEN <<"'var' keyword may be incorrectly used">> ELSE <<>>)
    \o (IF Contains(code, "study(")
        THEN <<"'study()' is deprecated in Pine Script v5, use 'indicator()' instead">>
        ELSE <<>>)

\* _validate_pine_syntax
ValidatePineSyntax(code) ==
    [is_valid |-> Len(ValidationErrors(code)) = 0,
     errors   |-> ValidationErrors(code),
     warnings |-> ValidationWarnings(code)]

\* "; ".join(errors)
RECURSIVE JoinErrors(_)
JoinErrors(errors) ==
    IF Len(errors) <= 1 THEN errors
    ELSE <<Head(errors), "; ">> \o JoinErrors(Tail(errors))

\* -------------------------------------------------------------- templates
\* Each fixed template is reduced to the tokens that validation and stripping
\* read: the surrounding newlines, the pragma, the declaration with its title,
\* and one balanced call (the MACD template also one balanced bracket pair).

RsiTemplate ==
    <<"\n", "//@version=5", "\n", "strategy(", "RSI Strategy", ")", "\n",
      "x", "=", "x", "(", "x", ")", "\n">>

EmaCrossoverTemplate ==
    <<"\n", "//@version=5", "\n", "strategy(", "EMA Crossover Strategy", ")", "\n",
      "x", "=", "x", "(", "x", ")", "\n">>

BollingerTemplate ==
    <<"\n", "//@version=5", "\n", "indicator(", "Bollinger Bands", ")", "\n",
      "x", "=", "x", "(", "x", ")", "\n">>

MacdTemplate ==
    <<"\n", "//@version=5", "\n", "indicator(", "MACD", ")", "\n",
      "[", "x", "]", "=", "x", "(", "x", ")", "\n">>

VolumeTemplate ==
    <<"\n", "//@version=5", "\n", "strategy(", "Volume Spike Strategy", ")", "\n",
      "x", "=", "x", "(", "x", ")", "\n">>

\* the title keeps at most this many characters of the description
TitleLimit == 50

\* the longest prefix of whole tokens with at most n characters
RECURSIVE TakeChars(_, _)
TakeChars(s, n) ==
    IF s = <<>> \/ TokLen(Head(s)) > n THEN <<>>
    ELSE <<Head(s)>> \o TakeChars(Tail(s), n - TokLen(Head(s)))

\* description[:50] if len(description) > 50 else description
Title(description) ==
    IF CharLen(description) > TitleLimit THEN TakeChars(description, TitleLimit)
    ELSE description

\* _get_generic_template: the description is embedded in the declaration's title
\* and in a comment line
GenericTemplate(description, script_type) ==
    <<"\n", "//@version=5", "\n",
      IF script_type = "strategy" THEN "strategy(" ELSE "indicator(">>
    \o Title(description)
    \o <<")", "\n", "// Description: ">> \o description
    \o <<"\n", "x", "=", "x", "(", "x", ")", "\n">>
    \o (IF script_type = "strategy"
        THEN <<"strategy.entry", "(", "x", ")", "\n">>
        ELSE <<"plotshape", "(", "x", ")", "\n">>)
    \o <<"plot", "(", "x", ")", "\n">>

\* str.lower() of one word
LowerTok(t) == IF t = "RSI" THEN "rsi" ELSE t

\* description.lower()
Lower(description) == [i \in 1..Len(description) |-> LowerTok(description[i])]

\* keyword occurs inside the word as a substring ("rsi" occurs in "version")
SubstringOf(keyword, word) ==
    \/ word = keyword
    \/ keyword = "rsi" /\ word = "version"

\* the test (keyword in description_lower)
HasKeyword(description_lower, keyword) ==
    \E i \in 1..Len(description_lower) : SubstringOf(keyword, description_lower[i])

\* a selection that tests "ema" and "crossover" before "rsi"
SelectTemplateEmaFirst(description, script_type) ==
    LET description_lower == Lower(description)
    IN  IF HasKeyword(description_lower, "ema")
           \/ HasKeyword(description_lower, "crossover") THEN EmaCrossoverTemplate
        ELSE IF HasKeyword(description_lower, "rsi") THEN RsiTemplate
        ELSE IF HasKeyword(description_lower, "bollinger") THEN BollingerTemplate
        ELSE IF HasKeyword(description_lower, "macd") THEN MacdTemplate
        ELSE IF HasKeyword(description_lower, "volume") THEN VolumeTemplate
        ELSE GenericTemplate(description, script_type)

\* _generate_from_template: the if/elif chain
SelectTemplate(description, script_type) ==
    LET description_lower == Lower(description)
    IN  IF HasKeyword(description_lower, "rsi") THEN RsiTemplate
        ELSE IF HasKeyword(description_lower, "ema")
                \/ HasKeyword(description_lower, "crossover") THEN EmaCrossoverTemplate
        ELSE IF HasKeyword(description_lower, "bollinger") THEN BollingerTemplate
        ELSE IF HasKeyword(description_lower, "macd") THEN MacdTemplate
        ELSE IF HasKeyword(description_lower, "volume") THEN VolumeTemplate
        ELSE GenericTemplate(description, script_type)

\* the dict returned for a piece of code and its validation
Report(code, validation) ==
    [code     |-> Strip(code),
     is_valid |-> validation.is_valid,
     errors   |-> validation.errors,
     warnings |-> validation.warnings]

\* _generate_from_template
GenerateFromTemplate(description, script_type) ==
    LET template == SelectTemplate(description, script_type)
    IN  Report(template, ValidatePineSyntax(template))

\* the part of _generate_with_llm after llm.complete returned reply
GenerateFromReply(reply) ==
    LET code == ExtractCode(reply)
    IN  Report(code, ValidatePineSyntax(code))

\* ------------------------------------------------------------------ inputs

Words == {"rsi", "RSI", "ema", "crossover", "bollinger", "macd", "volume",
          "version", "foo", "("}

Descriptions == UNION {[1..k -> Words] : k \in 0..MaxWords}

ScriptTypes == {"strategy", "indicator"}

\* texts an LLM may return and a caller may submit as code
Texts ==
    { <<"//@version=5", "\n", "strategy(", ")">>,
      <<"FENCE", "pinescript", "\n", "//@version=5", "\n", "indicator(", ")", "\n", "FENCE">>,
      <<"x", "FENCE", "\n", "indicator(", "(", ")", "FENCE", " ">>,
      <<"//@version=4", "[", "]">>,
      <<" ", "//@version=5", "library(", ")", "\n">>,
      <<"//@version=5", "study(", ")", "[", "var ", "x">>,
      <<"FENCE", "pine", "strategy(", "\n">>,
      <<>> }

\* code a caller submits to POST /pine/validate
CodesToValidate ==
    Texts \cup { <<"(", "[">>,
                 <<"//@version=5", "\n", "indicator(", ")", "\n", "study(", ")", "var ", "x">>,
                 <<"//@version=4", "strategy(", "]", ")">> }

ErrorMessages == {"line 3: syntax error", "Mismatched parentheses"}

\* what a call to the LLM or to the retrieval store does
Raised == [kind |-> "raise", text |-> <<>>]
Returned(text) == [kind |-> "ok", text |-> text]
Outcomes == {Raised} \cup {Returned(t) : t \in Texts}

NoCall == [op |-> "none", description |-> <<>>, script_type |-> "",
           code |-> <<>>, error_message |-> "", max_iterations |-> 0]
NoResult == [kind |-> "none"]
NoPrompt == [code |-> <<>>, error |-> <<>>]
NotAsked == [kind |-> "none", text |-> <<>>]

\* a dict handed back to the caller
Return(report) == [kind |-> "return", value |-> report]

\* ---------------------------------------------------- PineScriptGenerator

GenerateCall(description, script_type) ==
    [op |-> "generate", description |-> description, script_type |-> script_type,
     code |-> <<>>, error_message |-> "", max_iterations |-> 0]

FixCall(code, error_message, max_iterations) ==
    [op |-> "fix", description |-> <<>>, script_type |-> "",
     code |-> code, error_message |-> error_message, max_iterations |-> max_iterations]

\* a generate_pine_script without the try/except: the failure reaches the caller
GenerateFallbackPropagates(description, script_type) ==
    [kind |-> "raise", value |-> "Exception"]

\* generate_pine_script once the LLM path has failed or is not taken: the except
\* clause swallows the failure and the template result is returned
GenerateFallback(description, script_type) ==
    Return(GenerateFromTemplate(description, script_type))

\* a fix_compile_errors that validates the code it cannot fix
NoLlmReportValidated(code, error_message) ==
    LET validation == ValidatePineSyntax(code)
    IN  [code       |-> Strip(code),
         is_valid   |-> validation.is_valid,
         errors     |-> IF validation.is_valid THEN <<>> ELSE <<error_message>>,
         warnings   |-> <<>>,
         iterations |-> 0]

\* fix_compile_errors with no LLM
NoLlmReport(code, error_message) ==
    [code       |-> Strip(code),
     is_valid   |-> FALSE,
     errors     |-> <<error_message>>,
     warnings   |-> <<>>,
     iterations |-> 0]

\* fix_compile_errors: the return inside the loop, for a fixed_code that validates
FixedReport(fixed_code, validation, iter) ==
    [code       |-> Strip(fixed_code),
     is_valid   |-> TRUE,
     errors     |-> <<>>,
     warnings   |-> validation.warnings,
     iterations |-> iter + 1]

\* fix_compile_errors: "Return last attempt", after the loop ended or broke
LastAttemptReport(code, max_iterations) ==
    LET validation == ValidatePineSyntax(code)
    IN  [code       |-> Strip(code),
         is_valid   |-> validation.is_valid,
         errors     |-> validation.errors,
         warnings   |-> validation.warnings,
         iterations |-> max_iterations]

\* a loop that runs one pass too many
LoopContinuesOffByOne(iter, max_iterations) == iter + 1 <= max_iterations

\* for iteration in range(max_iterations): another pass follows pass number iter
LoopContinues(iter, max_iterations) == iter + 1 < max_iterations

\* generate_pine_script up to its first suspension: with no LLM the template
\* result; with an LLM, retrieval (which may raise, and then the template result)
\* and the request to the LLM
GeneratePineScript(description, script_type, retrieved) ==
    /\ pinePc = "idle"
    /\ call' = GenerateCall(description, script_type)
    /\ lastReply' = NotAsked
    /\ UNCHANGED <<llm, rag, current_code, current_error, iteration>>
    /\ UNCHANGED otherThanPine
    /\ IF ~llm
       THEN /\ result' = GenerateFallback(description, script_type)
            /\ pinePc' = "returned"
            /\ ragOutcome' = "none"
            /\ llmCalls' = 0
            /\ lastPrompt' = NoPrompt
       ELSE IF rag /\ retrieved = "raise"
       THEN /\ result' = GenerateFallback(description, script_type)
            /\ pinePc' = "returned"
            /\ ragOutcome' = "raise"
            /\ llmCalls' = 0
            /\ lastPrompt' = NoPrompt
       ELSE /\ result' = NoResult
            /\ pinePc' = "generating"
            /\ ragOutcome' = IF rag THEN "ok" ELSE "none"
            /\ llmCalls' = 1
            /\ lastPrompt' = [code |-> description, error |-> <<script_type>>]

\* generate_pine_script resumed by llm.complete: a raise falls back to the
\* template, a reply is fence-stripped, validated and returned
GenerateResume(outcome) ==
    /\ pinePc = "generating"
    /\ lastReply' = outcome
    /\ pinePc' = "returned"
    /\ result' = IF outcome.kind = "raise"
                 THEN GenerateFallback(call.description, call.script_type)
                 ELSE Return(GenerateFromReply(outcome.text))
    /\ UNCHANGED <<llm, rag, call, current_code, current_error, iteration,
                   llmCalls, lastPrompt, ragOutcome>>
    /\ UNCHANGED otherThanPine

\* fix_compile_errors up to its first suspension
FixCompileErrors(code, error_message, max_iterations) ==
    /\ pinePc = "idle"
    /\ call' = FixCall(code, error_message, max_iterations)
    /\ lastReply' = NotAsked
    /\ ragOutcome' = "none"
    /\ UNCHANGED <<llm, rag>>
    /\ UNCHANGED otherThanPine
    /\ IF ~llm
       THEN /\ result' = Return(NoLlmReport(code, error_message))
            /\ pinePc' = "returned"
            /\ llmCalls' = 0
            /\ lastPrompt' = NoPrompt
            /\ UNCHANGED <<current_code, current_error, iteration>>
       ELSE /\ current_code' = code
            /\ current_error' = <<error_message>>
            /\ iteration' = 0
            /\ IF max_iterations > 0
               THEN /\ pinePc' = "fixing"
                    /\ result' = NoResult
                    /\ llmCalls' = 1
                    /\ lastPrompt' = [code |-> code, error |-> <<error_message>>]
               ELSE /\ pinePc' = "returned"
                    /\ result' = Return(LastAttemptReport(code, max_iterations))
                    /\ llmCalls' = 0
                    /\ lastPrompt' = NoPrompt

\* fix_compile_errors resumed by llm.complete: one pass of the loop body, up to
\* the next request to the LLM or to the return
FixResume(outcome) ==
    /\ pinePc = "fixing"
    /\ lastReply' = outcome
    /\ UNCHANGED <<llm, rag, call, ragOutcome>>
    /\ UNCHANGED otherThanPine
    /\ IF outcome.kind = "raise"
       THEN /\ result' = Return(LastAttemptReport(current_code, call.max_iterations))
            /\ pinePc' = "returned"
            /\ UNCHANGED <<current_code, current_error, iteration, llmCalls, lastPrompt>>
       ELSE LET fixed_code == ExtractCode(outcome.text)
                validation == ValidatePineSyntax(fixed_code)
            IN  IF validation.is_valid
                THEN /\ result' = Return(FixedReport(fixed_code, validation, iteration))
                     /\ pinePc' = "returned"
                     /\ UNCHANGED <<current_code, current_error, iteration,
                                    llmCalls, lastPrompt>>
                ELSE /\ current_code' = fixed_code
                     /\ current_error' = JoinErrors(validation.errors)
                     /\ IF LoopContinues(iteration, call.max_iterations)
                        THEN /\ iteration' = iteration + 1
                             /\ llmCalls' = llmCalls + 1
                             /\ lastPrompt' = [code  |-> current_code',
                                               error |-> current_error']
                             /\ result' = NoResult
                             /\ pinePc' = "fixing"
                        ELSE /\ result' = Return(LastAttemptReport(fixed_code,
                                                                   call.max_iterations))
                             /\ pinePc' = "returned"
                             /\ UNCHANGED <<iteration, llmCalls, lastPrompt>>

\* POST /pine/validate: validate_pine_script answers with the validation itself
ValidatePineScript(code) ==
    /\ pinePc = "idle"
    /\ call' = [NoCall EXCEPT !.op = "validate", !.code = code]
    /\ result' = Return(ValidatePineSyntax(code))
    /\ pinePc' = "returned"
    /\ UNCHANGED <<llm, rag, current_code, current_error, iteration, llmCalls,
                   lastPrompt, lastReply, ragOutcome>>
    /\ UNCHANGED otherThanPine

PineIdle ==
    /\ pinePc = "idle"
    /\ call = NoCall
    /\ current_code = <<>>
    /\ current_error = <<>>
    /\ iteration = 0
    /\ llmCalls = 0
    /\ lastPrompt = NoPrompt
    /\ lastReply = NotAsked
    /\ ragOutcome = "none"
    /\ result = NoResult

\* ----------------------------------------- properties: PineScriptGenerator

GenerateReturned == pinePc = "returned" /\ call.op = "generate"
FixReturned == pinePc = "returned" /\ call.op = "fix"

\* the fence-stripped text of the most recent reply, and its validation
LastOutput == ExtractCode(lastReply.text)
LastValidation == ValidatePineSyntax(LastOutput)

\* C1: generate_pine_script never propagates a failure of the AI path.  It returns
\* exactly the template-selection result for the same description and script type
\* when no LLM is configured, when retrieval raised or when the completion raised;
\* when the completion succeeded it returns the fence-stripped reply with that
\* reply's own validation result (valid or not), never the template.
C1_GenerateFallsBackOnFailureOnly ==
    GenerateReturned =>
        /\ result.kind = "return"
        /\ (~llm \/ ragOutcome = "raise" \/ lastReply.kind = "raise")
              => result.value = GenerateFromTemplate(call.description, call.script_type)
        /\ (llm /\ lastReply.kind = "ok")
              => result.value = [code     |-> LastOutput,
                                 is_valid |-> LastValidation.is_valid,
                                 errors   |-> LastValidation.errors,
                                 warnings |-> LastValidation.warnings]

\* C1 witness: with an LLM configured the completion raised and the caller got the
\* RSI template for an "rsi" description
C1_Witness ==
    /\ GenerateReturned
    /\ llm
    /\ lastReply.kind = "raise"
    /\ call.description = <<"rsi">>
    /\ result.kind = "return"
    /\ result.value.code = Strip(RsiTemplate)

\* C4: with an LLM configured, fix_compile_errors asks the model at most
\* max_iterations times; a reply whose fence-stripped text validates ends the call
\* at once with that text, is_valid true, no errors and iterations = the number of
\* the attempt, so a further request is only ever made after an invalid reply; each
\* later request carries the previous reply's fence-stripped text as the code and
\* its validation errors joined with "; " as the error; when the last allowed
\* attempt is invalid too, its text is returned with its validation errors and
\* iterations = max_iterations.  (Calls in which the model raises are C29's.)
C4_FixLoop ==
    (call.op = "fix" /\ llm) =>
        /\ llmCalls <= call.max_iterations
        /\ (pinePc = "fixing" /\ llmCalls >= 2) =>
              /\ lastReply.kind = "ok"
              /\ ~LastValidation.is_valid
              /\ lastPrompt = [code  |-> LastOutput,
                               error |-> JoinErrors(LastValidation.errors)]
        /\ (pinePc = "returned" /\ lastReply.kind = "ok" /\ LastValidation.is_valid) =>
              result = Return([code       |-> LastOutput,
                               is_valid   |-> TRUE,
                               errors     |-> <<>>,
                               warnings   |-> LastValidation.warnings,
                               iterations |-> llmCalls])
        /\ (pinePc = "returned" /\ lastReply.kind = "ok" /\ ~LastValidation.is_valid) =>
              /\ llmCalls = call.max_iterations
              /\ result = Return([code       |-> LastOutput,
                                  is_valid   |-> FALSE,
                                  errors     |-> LastValidation.errors,
                                  warnings   |-> LastValidation.warnings,
                                  iterations |-> call.max_iterations])

\* C4 witness: the second of three allowed attempts validated and was returned
C4_Witness ==
    /\ FixReturned
    /\ llm
    /\ call.max_iterations = 3
    /\ llmCalls = 2
    /\ lastReply.kind = "ok"
    /\ result.kind = "return"
    /\ result.value.is_valid
    /\ result.value.iterations = 2
    /\ lastPrompt.code # call.code

\* C29: on every return path of fix_compile_errors the reported iterations equals
\* the number of model calls actually made, which never exceeds max_iterations:
\* 0 with no LLM, k when attempt k validates, max_iterations when all attempts
\* were made without success, and k when the model call of attempt k fails
\* (after which no further call is made and the most recent successfully
\* obtained code, or the original input if k = 1, is returned without raising).
C29_AsStated ==
    FixReturned =>
        /\ result.kind = "return"
        /\ llmCalls <= call.max_iterations
        /\ result.value.iterations = llmCalls
        /\ lastReply.kind = "raise" => result.value.code = Strip(current_code)

\* what the call does report: the calls made, except after a failed model call,
\* where it reports max_iterations whatever the number of calls made
C29_IterationsReported ==
    FixReturned =>
        /\ result.kind = "return"
        /\ llmCalls <= call.max_iterations
        /\ result.value.iterations =
               IF lastReply.kind = "raise" THEN call.max_iterations ELSE llmCalls
        /\ lastReply.kind = "raise" =>
               /\ result.value.code = Strip(current_code)
               /\ llmCalls = 1 => current_code = call.code

\* the first of three allowed model calls failed: one call made, 3 reported
C29_Overcount ==
    /\ FixReturned
    /\ llm
    /\ call.max_iterations = 3
    /\ lastReply.kind = "raise"
    /\ llmCalls = 1
    /\ result.value.iterations = 3
    /\ result.value.code = Strip(call.code)

C15_AsStated ==
    (GenerateReturned /\ ~llm) =>
        /\ result.kind = "return"
        /\ result.value.is_valid
        /\ result.value.errors = <<>>
        /\ Contains(result.value.code, "//@version=5")
        /\ Contains(result.value.code, "strategy(") \/ Contains(result.value.code, "indicator(")

\* with no LLM configured every returned code carries the pragma and a declaration
C15_PragmaAndDeclaration ==
    (GenerateReturned /\ ~llm) =>
        /\ result.kind = "return"
        /\ Contains(result.value.code, "//@version=5")
        /\ Contains(result.value.code, "strategy(") \/ Contains(result.value.code, "indicator(")

\* a description with an opening parenthesis and no template keyword, whose
\* generic skeleton is reported invalid
C15_UnbalancedDescription ==
    /\ GenerateReturned
    /\ ~llm
    /\ call.description = <<"foo", "(">>
    /\ result.kind = "return"
    /\ ~result.value.is_valid
    /\ result.value.errors = <<"Mismatched parentheses">>

ValidateReturned == pinePc = "returned" /\ call.op = "validate"

\* the four error messages in their order, and whether the condition of the k-th
\* holds for the code submitted
ErrorOrder ==
    <<"Missing version declaration (//@version=5)",
      "Missing indicator(), strategy(), or library() declaration",
      "Mismatched parentheses",
      "Mismatched brackets">>

ErrorCondition(k) ==
    CASE k = 1 -> \A i \in DOMAIN call.code : call.code[i] \notin {"//@version=5", "//@version=4"}
      [] k = 2 -> \A i \in DOMAIN call.code :
                      call.code[i] \notin {"indicator(", "strategy(", "library("}
      [] k = 3 -> Count(call.code, "(") # Count(call.code, ")")
      [] k = 4 -> Count(call.code, "[") # Count(call.code, "]")

\* C16: the validator answers is_valid true iff its error list is empty; the
\* errors come in the order missing-version, missing-declaration, mismatched
\* parentheses, mismatched brackets, each present exactly when its condition holds
\* (neither pragma occurs; none of the three declarations occurs; the counts of
\* "(" and ")" differ; the counts of "[" and "]" differ); warnings never change
\* is_valid.
C16_Validator ==
    ValidateReturned =>
        LET errors == result.value.errors
            place(e) == CHOOSE k \in 1..4 : ErrorOrder[k] = e
        IN  /\ result.value.is_valid <=> errors = <<>>
            /\ \A i \in DOMAIN errors : \E k \in 1..4 : errors[i] = ErrorOrder[k]
            /\ \A k \in 1..4 : (\E i \in DOMAIN errors : errors[i] = ErrorOrder[k])
                                   <=> ErrorCondition(k)
            /\ \A i, j \in DOMAIN errors : i < j => place(errors[i]) < place(errors[j])

\* C16 witness: code with all four errors, in the stated order
C16_Witness ==
    /\ ValidateReturned
    /\ \A k \in 1..4 : ErrorCondition(k)
    /\ result.value.errors = ErrorOrder
    /\ ~result.value.is_valid

\* code answered with two warnings and is_valid true
C16_ValidWithWarnings ==
    /\ ValidateReturned
    /\ Len(result.value.warnings) = 2
    /\ result.value.is_valid

\* the keywords in their order, and the fixed template each one gives
KeywordOrder == <<"rsi", "ema", "crossover", "bollinger", "macd", "volume">>

KeywordTemplate ==
    <<RsiTemplate, EmaCrossoverTemplate, EmaCrossoverTemplate, BollingerTemplate,
      MacdTemplate, VolumeTemplate>>

\* the places in KeywordOrder of the keywords that occur in the description of
\* the call, whatever their case
KeywordsPresent ==
    {k \in 1..6 : \E i \in DOMAIN call.description :
                      SubstringOf(KeywordOrder[k], LowerTok(call.description[i]))}

\* C17: template selection picks the template of the first keyword, tested
\* case-insensitively in the order rsi, ema or crossover, bollinger, macd, volume,
\* that occurs in the description (RSI strategy, EMA-crossover strategy,
\* Bollinger-Bands indicator, MACD indicator, volume-spike strategy); none gives
\* the generic skeleton; with several keywords the earliest in this order wins;
\* only the generic skeleton depends on the script type.
C17_TemplateSelection ==
    (GenerateReturned /\ ~llm) =>
        /\ result.kind = "return"
        /\ KeywordsPresent # {} =>
              result.value.code = Strip(KeywordTemplate[Min(KeywordsPresent)])
        /\ KeywordsPresent = {} =>
              /\ result.value.code = Strip(GenericTemplate(call.description, call.script_type))
              /\ Contains(result.value.code, "strategy(") <=> call.script_type = "strategy"
              /\ Contains(result.value.code, "indicator(") <=> call.script_type # "strategy"

\* C17 witness: a description naming both ema and rsi, asked for as an
\* indicator, got the RSI strategy template
C17_Witness ==
    /\ GenerateReturned
    /\ ~llm
    /\ call.description = <<"ema", "RSI">>
    /\ call.script_type = "indicator"
    /\ result.kind = "return"
    /\ result.value.code = Strip(RsiTemplate)
    /\ Contains(result.value.code, "strategy(")

\* ------------------------------------------------------------ chat_endpoint

\* delta.content values of upstream chunks; "" is a chunk without content
ChunkContents == {"Hel", "lo", ""}

FailureMessages == {"Connection error."}

\* f"data: {json.dumps({'content': chunk})}\n\n"
ContentFrame(chunk) == [event |-> "content", data |-> chunk]
\* "data: [DONE]\n\n"
DoneFrame == [event |-> "done", data |-> "[DONE]"]
\* f"data: {json.dumps({'error': str(e)})}\n\n"
ErrorFrame(message) == [event |-> "error", data |-> message]

\* a generate() that sends the completion signal after the error frame as well
FailureFramesThenDone(message) == <<ErrorFrame(message), DoneFrame>>

\* generate(): what the except clause sends
FailureFrames(message) == <<ErrorFrame(message)>>

\* LLMService.stream: a chunk is yielded only if it has choices and content
Yielded(content) == content # ""

\* chat_endpoint: the messages are built; a streaming request gets the
\* StreamingResponse over generate(), a non-streaming one awaits llm.complete
ChatEndpoint(stream) ==
    /\ chatPc = "idle"
    /\ chatPc' = IF stream THEN "streaming" ELSE "completing"
    /\ UNCHANGED <<chunks, upstream, frames, chatResponse>>
    /\ UNCHANGED otherThanChat

\* the upstream stream delivers a chunk: LLMService.stream yields its content if
\* it has any, and generate() sends it as one frame
StreamChunk(content) ==
    /\ chatPc = "streaming"
    /\ Len(chunks) < MaxChunks
    /\ chunks' = Append(chunks, content)
    /\ frames' = IF Yielded(content) THEN Append(frames, ContentFrame(content))
                 ELSE frames
    /\ UNCHANGED <<chatPc, upstream, chatResponse>>
    /\ UNCHANGED otherThanChat

\* the upstream stream ends: the loop of generate() ends and [DONE] is sent
StreamEnd ==
    /\ chatPc = "streaming"
    /\ upstream' = "ended"
    /\ frames' = Append(frames, DoneFrame)
    /\ chatPc' = "closed"
    /\ UNCHANGED <<chunks, chatResponse>>
    /\ UNCHANGED otherThanChat

\* the request to the upstream, or its stream, raises: LLMService.stream logs and
\* re-raises, generate() sends the error frame and ends
StreamFail(message) ==
    /\ chatPc = "streaming"
    /\ upstream' = "failed"
    /\ frames' = frames \o FailureFrames(message)
    /\ chatPc' = "closed"
    /\ UNCHANGED <<chunks, chatResponse>>
    /\ UNCHANGED otherThanChat

\* the non-streaming branch resumed by llm.complete
ChatComplete(outcome) ==
    /\ chatPc = "completing"
    /\ chatResponse' = IF outcome.kind = "raise"
                       THEN [kind |-> "http_error", status |-> 500]
                       ELSE [kind |-> "return", value |-> [content |-> outcome.text]]
    /\ chatPc' = "closed"
    /\ UNCHANGED <<chunks, upstream, frames>>
    /\ UNCHANGED otherThanChat

ChatIdle ==
    /\ chatPc = "idle"
    /\ chunks = <<>>
    /\ upstream = "open"
    /\ frames = <<>>
    /\ chatResponse = NoResult

\* ---------------------------------------------------- properties: chat

Terminal(frame) == frame.event \in {"done", "error"}

\* the content frames a chunk sequence calls for
RECURSIVE ExpectedContentFrames(_)
ExpectedContentFrames(cs) ==
    IF cs = <<>> THEN <<>>
    ELSE (IF Head(cs) = "" THEN <<>> ELSE <<[event |-> "content", data |-> Head(cs)]>>)
         \o ExpectedContentFrames(Tail(cs))

\* C6: the frames of a streaming response are one content frame per upstream text
\* fragment, in arrival order, then exactly one terminal frame: [DONE] if the
\* upstream ended normally, one error frame if it failed (before or after any
\* fragment).  Nothing follows the terminal frame, and [DONE] is never sent on a
\* stream that carried an error frame.
C6_StreamFrames ==
    LET n == Len(frames)
        terminals == {i \in 1..n : Terminal(frames[i])}
    IN  /\ chatPc = "streaming" =>
              /\ terminals = {}
              /\ frames = ExpectedContentFrames(chunks)
        /\ (chatPc = "closed" /\ upstream # "open") =>
              /\ terminals = {n}
              /\ SubSeq(frames, 1, n - 1) = ExpectedContentFrames(chunks)
              /\ upstream = "ended" => frames[n].event = "done"
              /\ upstream = "failed" => frames[n].event = "error"
        /\ (chatPc \in {"idle", "completing"} \/ (upstream = "open" /\ chatPc = "closed"))
              => frames = <<>>

\* C6 witness: the upstream failed after a fragment had been forwarded; the stream
\* closed with the fragment's frame and one error frame
C6_Witness ==
    /\ chatPc = "closed"
    /\ upstream = "failed"
    /\ Len(frames) = 2
    /\ frames[1].event = "content"
    /\ frames[2].event = "error"


\* ---------------------------- EdgeDiscoveryService._parse_feature_description

\* JSON values; numbers are kept in hundredths (0.95 is 95, 14 is 1400)
JsonStr(x) == [t |-> "string", s |-> x]
JsonNum(x) == [t |-> "number", n |-> x]
JsonObj(x) == [t |-> "object", o |-> x]
JsonArr(x) == [t |-> "array", a |-> x]
JsonNull == [t |-> "null"]
EmptyDict == <<>>

Decoded(value) == [ok |-> TRUE, value |-> value]
DecodeError == [ok |-> FALSE, value |-> JsonNull]

\* the texts an LLM may reply with
ReplyTexts ==
    { "{\"type\": \"rsi\", \"parameters\": {\"period\": 14}, \"conditions\": {\"entry_long\": \"rsi < 30\"}, \"confidence\": 0.95}",
      "{\"type\": \"custom\", \"parameters\": {}}",
      "{\"type\": \"ema\"}",
      "{\"parameters\": {\"period\": 14}}",
      "{\"type\": \"rsi\", \"parameters\": null}",
      "{\"type\": \"rsi\", \"parameters\": {\"type\": \"magic\", \"source\": \"user\", \"confidence\": 7}}",
      "[\"type\", \"parameters\"]",
      "\"type and parameters\"",
      "42",
      "I think it is an RSI feature",
      "",
      "{\"type\": \"rsi\", \"parameters\": [14]}",
      "{\"type\": 5, \"parameters\": {\"period\": 14}, \"confidence\": 1.5}" }

\* json.loads on the reply texts
JsonLoads(text) ==
    CASE text = "{\"type\": \"rsi\", \"parameters\": {\"period\": 14}, \"conditions\": {\"entry_long\": \"rsi < 30\"}, \"confidence\": 0.95}" ->
            Decoded(JsonObj([type       |-> JsonStr("rsi"),
                             parameters |-> JsonObj([period |-> JsonNum(1400)]),
                             conditions |-> JsonObj([entry_long |-> JsonStr("rsi < 30")]),
                             confidence |-> JsonNum(95)]))
      [] text = "{\"type\": \"custom\", \"parameters\": {}}" ->
            Decoded(JsonObj([type |-> JsonStr("custom"), parameters |-> JsonObj(EmptyDict)]))
      [] text = "{\"type\": \"ema\"}" ->
            Decoded(JsonObj([type |-> JsonStr("ema")]))
      [] text = "{\"parameters\": {\"period\": 14}}" ->
            Decoded(JsonObj([parameters |-> JsonObj([period |-> JsonNum(1400)])]))
      [] text = "{\"type\": \"rsi\", \"parameters\": null}" ->
            Decoded(JsonObj([type |-> JsonStr("rsi"), parameters |-> JsonNull]))
      [] text = "{\"type\": \"rsi\", \"parameters\": {\"type\": \"magic\", \"source\": \"user\", \"confidence\": 7}}" ->
            Decoded(JsonObj([type       |-> JsonStr("rsi"),
                             parameters |-> JsonObj([type       |-> JsonStr("magic"),
                                                     source     |-> JsonStr("user"),
                                                     confidence |-> JsonNum(700)])]))
      [] text = "[\"type\", \"parameters\"]" ->
            Decoded(JsonArr(<<JsonStr("type"), JsonStr("parameters")>>))
      [] text = "\"type and parameters\"" ->
            Decoded(JsonStr("type and parameters"))
      [] text = "42" ->
            Decoded(JsonNum(4200))
      [] text = "{\"type\": \"rsi\", \"parameters\": [14]}" ->
            Decoded(JsonObj([type |-> JsonStr("rsi"),
                             parameters |-> JsonArr(<<JsonNum(1400)>>)]))
      [] text = "{\"type\": 5, \"parameters\": {\"period\": 14}, \"confidence\": 1.5}" ->
            Decoded(JsonObj([type       |-> JsonNum(500),
                             parameters |-> JsonObj([period |-> JsonNum(1400)]),
                             confidence |-> JsonNum(150)]))
      [] OTHER -> DecodeError

\* Python's (key in value): a key of a dict, an element of a list, a substring of
\* a str; a TypeError for a number or None
PyIn(key, value) ==
    CASE value.t = "object" -> [raises |-> FALSE, holds |-> key \in DOMAIN value.o]
      [] value.t = "array"  -> [raises |-> FALSE,
                                holds  |-> \E i \in 1..Len(value.a) : value.a[i] = JsonStr(key)]
      [] value.t = "string" -> [raises |-> FALSE,
                                holds  |-> value.s = "type and parameters"
                                           /\ key \in {"type", "parameters"}]
      [] OTHER -> [raises |-> TRUE, holds |-> FALSE]

\* dict.get(key, default)
Get(dict, key, default) == IF key \in DOMAIN dict THEN dict[key] ELSE default

\* {**a, **b}: the keys of both, b's value where both have the key
Merge(a, b) == [k \in DOMAIN a \cup DOMAIN b |-> IF k \in DOMAIN b THEN b[k] ELSE a[k]]

\* words of a feature description
FeatureWords == {"rsi", "RSI", "ema", "moving average", "macd", "volume", "bollinger",
                 "atr", "stochastic", "stoch", "version", "foo", "7", "30", "period", "x"}

FeatureDescriptions == UNION {[1..k -> FeatureWords] : k \in 0..MaxWords}

IsNumber(word) == word \in {"7", "30"}
\* int(...) of a matched number
NumVal(word) == IF word = "7" THEN 7 ELSE 30

\* (keyword in description_lower): "rsi" also occurs in "version", "stoch" in
\* "stochastic"
FeatureKeyword(description_lower, keyword) ==
    \E i \in 1..Len(description_lower) :
        \/ description_lower[i] = keyword
        \/ keyword = "rsi" /\ description_lower[i] = "version"
        \/ keyword = "stoch" /\ description_lower[i] = "stochastic"

\* the numbers that a word beginning with one of the units follows, in order, as
\* re.findall(r'(\d+)\s*(?:unit|...)') lists them
RECURSIVE NumbersBefore(_, _)
NumbersBefore(words, units) ==
    IF Len(words) < 2 THEN <<>>
    ELSE (IF IsNumber(words[1]) /\ words[2] \in units THEN <<NumVal(words[1])>> ELSE <<>>)
         \o NumbersBefore(Tail(words), units)

\* words of the vocabulary that begin with period, day or bar
PeriodUnits == {"period"}
\* words of the vocabulary that begin with ema, ma, period or day
EmaUnits == {"ema", "macd", "period"}
\* words of the vocabulary that begin with x
TimesUnits == {"x"}

\* a pattern match that tests bollinger before volume
PatternMatchFeatureBollingerFirst(description) ==
    LET description_lower == Lower(description)
        Has(keyword) == FeatureKeyword(description_lower, keyword)
        Tagged(fields, confidence) ==
            Merge(fields, [confidence |-> JsonNum(confidence), source |-> JsonStr("pattern")])
    IN  IF Has("rsi") THEN
            LET period_match == NumbersBefore(description_lower, PeriodUnits)
                period == IF period_match # <<>> THEN period_match[1] ELSE 14
            IN  Tagged([type |-> JsonStr("rsi"), period |-> JsonNum(period * 100)], 60)
        ELSE IF Has("ema") \/ Has("moving average") THEN
            LET periods == NumbersBefore(description_lower, EmaUnits)
                two == Len(periods) >= 2
                fast == IF two THEN (IF periods[1] <= periods[2] THEN periods[1] ELSE periods[2])
                        ELSE 9
                slow == IF two THEN (IF periods[1] <= periods[2] THEN periods[2] ELSE periods[1])
                        ELSE 21
            IN  Tagged([type |-> JsonStr("ema"), fast |-> JsonNum(fast * 100),
                        slow |-> JsonNum(slow * 100)], 60)
        ELSE IF Has("macd") THEN
            Tagged([type |-> JsonStr("macd"), fast |-> JsonNum(1200), slow |-> JsonNum(2600),
                    signal |-> JsonNum(900)], 70)
        ELSE IF Has("bollinger") THEN
            Tagged([type |-> JsonStr("bollinger"), period |-> JsonNum(2000),
                    std |-> JsonNum(200)], 70)
        ELSE IF Has("volume") THEN
            LET threshold_match == NumbersBefore(description_lower, TimesUnits)
                threshold == IF threshold_match # <<>> THEN threshold_match[1] * 100 ELSE 200
            IN  Tagged([type |-> JsonStr("volume_spike"), threshold |-> JsonNum(threshold),
                        lookback |-> JsonNum(2000)], 60)
        ELSE IF Has("atr") THEN
            Tagged([type |-> JsonStr("atr"), period |-> JsonNum(1400)], 60)
        ELSE IF Has("stochastic") \/ Has("stoch") THEN
            Tagged([type |-> JsonStr("stochastic"), k_period |-> JsonNum(1400),
                    d_period |-> JsonNum(300)], 60)
        ELSE
            Tagged([type |-> JsonStr("momentum"), period |-> JsonNum(1000)], 30)

\* _pattern_match_feature
PatternMatchFeature(description) ==
    LET description_lower == Lower(description)
        Has(keyword) == FeatureKeyword(description_lower, keyword)
        Tagged(fields, confidence) ==
            Merge(fields, [confidence |-> JsonNum(confidence), source |-> JsonStr("pattern")])
    IN  IF Has("rsi") THEN
            LET period_match == NumbersBefore(description_lower, PeriodUnits)
                period == IF period_match # <<>> THEN period_match[1] ELSE 14
            IN  Tagged([type |-> JsonStr("rsi"), period |-> JsonNum(period * 100)], 60)
        ELSE IF Has("ema") \/ Has("moving average") THEN
            LET periods == NumbersBefore(description_lower, EmaUnits)
                two == Len(periods) >= 2
                fast == IF two THEN (IF periods[1] <= periods[2] THEN periods[1] ELSE periods[2])
                        ELSE 9
                slow == IF two THEN (IF periods[1] <= periods[2] THEN periods[2] ELSE periods[1])
                        ELSE 21
            IN  Tagged([type |-> JsonStr("ema"), fast |-> JsonNum(fast * 100),
                        slow |-> JsonNum(slow * 100)], 60)
        ELSE IF Has("macd") THEN
            Tagged([type |-> JsonStr("macd"), fast |-> JsonNum(1200), slow |-> JsonNum(2600),
                    signal |-> JsonNum(900)], 70)
        ELSE IF Has("volume") THEN
            LET threshold_match == NumbersBefore(description_lower, TimesUnits)
                threshold == IF threshold_match # <<>> THEN threshold_match[1] * 100 ELSE 200
            IN  Tagged([type |-> JsonStr("volume_spike"), threshold |-> JsonNum(threshold),
                        lookback |-> JsonNum(2000)], 60)
        ELSE IF Has("bollinger") THEN
            Tagged([type |-> JsonStr("bollinger"), period |-> JsonNum(2000),
                    std |-> JsonNum(200)], 70)
        ELSE IF Has("atr") THEN
            Tagged([type |-> JsonStr("atr"), period |-> JsonNum(1400)], 60)
        ELSE IF Has("stochastic") \/ Has("stoch") THEN
            Tagged([type |-> JsonStr("stochastic"), k_period |-> JsonNum(1400),
                    d_period |-> JsonNum(300)], 60)
        ELSE
            Tagged([type |-> JsonStr("momentum"), period |-> JsonNum(1000)], 30)

\* the dict built from a decoded reply that passed the field test; a reply that is
\* no dict, or whose parameters are no dict, raises inside the try block
LlmFeature(parsed) ==
    IF parsed.t # "object" THEN [kind |-> "raise"]
    ELSE IF Get(parsed.o, "parameters", JsonObj(EmptyDict)).t # "object"
    THEN [kind |-> "raise"]
    ELSE [kind  |-> "return",
          value |-> Merge(Merge([type |-> parsed.o.type],
                                Get(parsed.o, "parameters", JsonObj(EmptyDict)).o),
                          [conditions |-> Get(parsed.o, "conditions", JsonObj(EmptyDict)),
                           confidence |-> Get(parsed.o, "confidence", JsonNum(80)),
                           source     |-> JsonStr("llm")])]

\* a field test that accepts a reply as soon as it has a type
RequiredFieldsTypeOnly(parsed) ==
    IF PyIn("type", parsed).raises THEN [raises |-> TRUE, holds |-> FALSE]
    ELSE [raises |-> FALSE, holds |-> PyIn("type", parsed).holds]

\* "type" in parsed and "parameters" in parsed
RequiredFields(parsed) ==
    IF PyIn("type", parsed).raises THEN [raises |-> TRUE, holds |-> FALSE]
    ELSE IF ~PyIn("type", parsed).holds THEN [raises |-> FALSE, holds |-> FALSE]
    ELSE PyIn("parameters", parsed)

\* the try block after llm.complete returned: the dict to return, or the fall
\* through to pattern matching (field test failed, or an exception was caught)
FromReply(text) ==
    LET decoded == JsonLoads(text)
    IN  IF ~decoded.ok THEN [kind |-> "fallback"]
        ELSE IF RequiredFields(decoded.value).raises THEN [kind |-> "fallback"]
        ELSE IF ~RequiredFields(decoded.value).holds THEN [kind |-> "fallback"]
        ELSE IF LlmFeature(decoded.value).kind = "raise" THEN [kind |-> "fallback"]
        ELSE LlmFeature(decoded.value)

\* _parse_feature_description up to its suspension: pattern matching at once with
\* no LLM, else the request to the LLM
ParseFeatureDescription(description) ==
    /\ featPc = "idle"
    /\ feature_description' = description
    /\ IF ~edge_llm
       THEN /\ feature_logic' = Return(PatternMatchFeature(description))
            /\ featPc' = "returned"
       ELSE /\ feature_logic' = NoResult
            /\ featPc' = "asking"
    /\ UNCHANGED <<edge_llm, featReply>>
    /\ UNCHANGED otherThanFeat

\* _parse_feature_description resumed by llm.complete
ParseFeatureResume(outcome) ==
    /\ featPc = "asking"
    /\ featReply' = outcome
    /\ feature_logic' =
           IF outcome.kind = "raise" THEN Return(PatternMatchFeature(feature_description))
           ELSE IF FromReply(outcome.text).kind = "fallback"
           THEN Return(PatternMatchFeature(feature_description))
           ELSE Return(FromReply(outcome.text).value)
    /\ featPc' = "returned"
    /\ UNCHANGED <<edge_llm, feature_description>>
    /\ UNCHANGED otherThanFeat

\* llm.complete raised, or returned a text
ReplyRaised == [kind |-> "raise", text |-> ""]
ReplyOutcomes == {ReplyRaised} \cup {[kind |-> "ok", text |-> t] : t \in ReplyTexts}
NoReply == [kind |-> "none", text |-> ""]

FeatIdle ==
    /\ featPc = "idle"
    /\ feature_description = <<>>
    /\ featReply = NoReply
    /\ feature_logic = NoResult

\* ------------------------------------------------ properties: feature parsing

\* the reply decoded to a JSON object that has the field
ReplyHasField(field) ==
    /\ featReply.kind = "ok"
    /\ JsonLoads(featReply.text).ok
    /\ JsonLoads(featReply.text).value.t = "object"
    /\ field \in DOMAIN JsonLoads(featReply.text).value.o

\* C7: feature parsing never raises because of the LLM; it returns the
\* pattern-matching result (provenance "pattern") whenever no LLM is configured,
\* the call raised, the reply is not valid JSON, or the decoded reply lacks the
\* "type" or the "parameters" field; a provenance "llm" result is returned only
\* for a reply that decodes and has both fields.
C7_FeatureFallback ==
    featPc = "returned" =>
        /\ feature_logic.kind = "return"
        /\ feature_logic.value.source \in {JsonStr("llm"), JsonStr("pattern")}
        /\ (\/ ~edge_llm
            \/ featReply.kind = "raise"
            \/ ~ReplyHasField("type")
            \/ ~ReplyHasField("parameters"))
              => /\ feature_logic.value = PatternMatchFeature(feature_description)
                 /\ feature_logic.value.source = JsonStr("pattern")
        /\ feature_logic.value.source = JsonStr("llm")
              => /\ edge_llm
                 /\ ReplyHasField("type")
                 /\ ReplyHasField("parameters")

\* C7 witness: the LLM replied with a JSON object lacking "parameters" and the
\* caller got the pattern result for an RSI description
C7_Witness ==
    /\ featPc = "returned"
    /\ edge_llm
    /\ featReply.kind = "ok"
    /\ ReplyHasField("type")
    /\ ~ReplyHasField("parameters")
    /\ feature_description = <<"RSI", "foo">>
    /\ feature_logic.kind = "return"
    /\ feature_logic.value.type = JsonStr("rsi")
    /\ feature_logic.value.source = JsonStr("pattern")


\* the keywords of the pattern fallback in their order, and the type of each
FeatureKeywordOrder ==
    <<"rsi", "ema", "moving average", "macd", "volume", "bollinger", "atr",
      "stochastic", "stoch">>

FeatureKeywordType ==
    <<"rsi", "ema", "ema", "macd", "volume_spike", "bollinger", "atr",
      "stochastic", "stochastic">>

\* the places in FeatureKeywordOrder of the keywords that occur in the
\* description of the call, whatever their case
FeatureKeywordsPresent ==
    {k \in 1..9 : FeatureKeyword(Lower(feature_description), FeatureKeywordOrder[k])}

PatternReturned ==
    /\ featPc = "returned"
    /\ feature_logic.kind = "return"
    /\ feature_logic.value.source = JsonStr("pattern")

\* C18: the pattern fallback picks the type of the first keyword, tested
\* case-insensitively in the order rsi, ema or moving average, macd, volume
\* (volume_spike), bollinger, atr, stochastic or stoch, that occurs in the
\* description; none gives momentum with confidence 0.3; with several keywords the
\* earliest in this order wins; every result is tagged provenance "pattern".
C18_PatternFallback ==
    /\ (featPc = "returned" /\ ~edge_llm) => PatternReturned
    /\ PatternReturned =>
          /\ FeatureKeywordsPresent # {} =>
                feature_logic.value.type
                    = JsonStr(FeatureKeywordType[Min(FeatureKeywordsPresent)])
          /\ FeatureKeywordsPresent = {} =>
                /\ feature_logic.value.type = JsonStr("momentum")
                /\ feature_logic.value.confidence = JsonNum(30)

\* C18 witness: a description naming bollinger and then volume, parsed by the
\* pattern fallback as volume_spike
C18_Witness ==
    /\ PatternReturned
    /\ feature_description = <<"bollinger", "volume">>
    /\ feature_logic.value.type = JsonStr("volume_spike")

FeatureTypes ==
    {"rsi", "ema", "macd", "bollinger", "volume_spike", "atr", "stochastic", "momentum"}

\* a returned Feature Logic has a listed type, a confidence in [0,1] and a
\* provenance of llm or pattern
WellFormedFeature(feature) ==
    /\ feature.type.t = "string"
    /\ feature.type.s \in FeatureTypes
    /\ feature.confidence.t = "number"
    /\ feature.confidence.n \in 0..100
    /\ feature.source \in {JsonStr("llm"), JsonStr("pattern")}

\* C19: every Feature Logic returned by feature parsing, on the LLM path as well
\* as the pattern path and for every LLM reply, has a type tag that is one of rsi,
\* ema, macd, bollinger, volume_spike, atr, stochastic, momentum, a confidence
\* score in [0,1] and a provenance tag that is "llm" or "pattern".
C19_AsStated ==
    featPc = "returned" =>
        /\ feature_logic.kind = "return"
        /\ WellFormedFeature(feature_logic.value)

\* on the pattern path every returned Feature Logic is well formed
C19_PatternPath ==
    PatternReturned => WellFormedFeature(feature_logic.value)

\* a reply of type "custom", a type the prompt offers, returned as it came
C19_CustomTypeReturned ==
    /\ featPc = "returned"
    /\ feature_logic.kind = "return"
    /\ feature_logic.value.source = JsonStr("llm")
    /\ feature_logic.value.type = JsonStr("custom")

\* ------------------------------------------------------ PropFirmSimulator
\* Returns, targets and drawdown limits are whole percents (0.05 is 5).  Equity
\* is an integer at the scale Scale(n_days), so that compounding n_days returns
\* is exact.  Rates and money averages are fractions <<numerator, denominator>>
\* with a positive denominator.

\* the members of the two PropFirmType classes: the request schema's
\* (class PropFirmType(str, Enum)) and the service's (class PropFirmType(Enum))
FirmMembers == {<<"FTMO", "ftmo">>, <<"THE5ERS", "the5ers">>, <<"APEX", "apex">>,
                <<"TOPSTEP", "topstep">>, <<"MFF", "mff">>, <<"E8", "e8">>}
Member(cls, nv) == [cls |-> cls, name |-> nv[1], value |-> nv[2]]
SchemaFirms == {Member("schemas", nv) : nv \in FirmMembers}
ServiceFirms == {Member("service", nv) : nv \in FirmMembers}

\* Optional[float]: None is the empty tuple, a value its one-element tuple
None == <<>>
\* the truth value of an Optional[float]: None and 0.0 are false
Truthy(optional) == optional # None /\ optional[1] # 0

PropFirmRules(name, cost, target1, target2, daily, total, min_days, split, trailing, consistency) ==
    [name |-> name, account_size |-> 100000, challenge_cost |-> cost,
     profit_target_phase1 |-> target1, profit_target_phase2 |-> target2,
     max_daily_drawdown |-> daily, max_total_drawdown |-> total,
     min_trading_days |-> min_days, profit_split |-> split,
     trailing_drawdown |-> trailing, consistency_rule |-> consistency]

\* the dict keyed by the service's members
PROP_FIRM_CONFIGS ==
    [firm \in {f \in ServiceFirms : f.value \in {"ftmo", "the5ers", "apex", "e8"}} |->
        CASE firm.value = "ftmo" ->
                 PropFirmRules("FTMO", 540, 10, 5, 5, 10, 4, 80, FALSE, None)
          [] firm.value = "the5ers" ->
                 PropFirmRules("The5%ers", 235, 8, 5, 5, 10, 3, 80, FALSE, None)
          [] firm.value = "apex" ->
                 PropFirmRules("Apex Trader Funding", 167, 6, 0, 0, 3, 7, 90, TRUE, None)
          [] firm.value = "e8" ->
                 PropFirmRules("E8 Markets", 228, 8, 5, 5, 8, 0, 80, FALSE, None)]

\* two members are equal only within one class: a key of the other class, or of
\* a member without a record, is no key of the dict
HasConfig(firm) == firm \in DOMAIN PROP_FIRM_CONFIGS

\* str(KeyError(member)): the repr of the member
KeyErrorMessage(firm) ==
    <<"<PropFirmType.", firm.name, ": '", firm.value, "'>">>

\* rule records a caller may pass as custom_rules
CustomRuleRecords ==
    { PropFirmRules("Custom trailing", 0, 8, 0, 0, 5, 1, 80, TRUE, None),
      PropFirmRules("Custom consistency", 100, 8, 4, 5, 10, 2, 80, FALSE, <<50>>) }

\* fractions
Rat(n, d) == <<n, d>>
RatEq(x, y) == x[1] * y[2] = y[1] * x[2]
RatGt(x, y) == x[1] * y[2] > y[1] * x[2]
RatMul(x, y) == <<x[1] * y[1], x[2] * y[2]>>
RatSub(x, y) == <<x[1] * y[2] - y[1] * x[2], x[2] * y[2]>>
RatOne == <<1, 1>>
RatZero == <<0, 1>>

RECURSIVE SumSeq(_)
SumSeq(s) == IF s = <<>> THEN 0 ELSE Head(s) + SumSeq(Tail(s))

RECURSIVE MaxSeq(_)
MaxSeq(s) == IF Len(s) = 1 THEN s[1]
             ELSE IF Head(s) >= MaxSeq(Tail(s)) THEN Head(s) ELSE MaxSeq(Tail(s))

RECURSIVE Sorted(_)
Sorted(s) ==
    IF s = <<>> THEN <<>>
    ELSE LET rest == Sorted(Tail(s))
             below == SelectSeq(rest, LAMBDA x : x <= Head(s))
             above == SelectSeq(rest, LAMBDA x : x > Head(s))
         IN  below \o <<Head(s)>> \o above

\* float(np.mean(values))
Mean(values) == Rat(SumSeq(values), Len(values))

\* float(np.percentile(values, q)): linear interpolation between the order
\* statistics around position (len - 1) * q / 100
Percentile(values, q) ==
    LET s == Sorted(values)
        pos == (Len(s) - 1) * q
        lo == pos \div 100
        rem == pos % 100
    IN  IF rem = 0 THEN Rat(100 * s[lo + 1], 100)
        ELSE Rat(100 * s[lo + 1] + rem * (s[lo + 2] - s[lo + 1]), 100)

\* the integer that stands for equity 1.0
RECURSIVE Scale(_)
Scale(n_days) == IF n_days <= 1 THEN 100 ELSE 100 * Scale(n_days - 1)

\* np.random.permutation(daily_returns): the arrangements of the array
Arrangements(returns) ==
    LET n == Len(returns)
    IN  { [i \in 1..n |-> returns[p[i]]] :
            p \in {q \in [1..n -> 1..n] : \A i, j \in 1..n : q[i] = q[j] => i = j} }

\* the arguments of one _simulate_phase call
PhaseArgs(returns, rule_record, profit_target) ==
    [daily_returns |-> returns, profit_target |-> profit_target,
     max_daily_dd |-> rule_record.max_daily_drawdown,
     max_total_dd |-> rule_record.max_total_drawdown,
     min_days |-> rule_record.min_trading_days,
     trailing_dd |-> rule_record.trailing_drawdown,
     consistency_rule |-> rule_record.consistency_rule]

\* a trial before its first day
TrialStart(args) ==
    LET one == Scale(Len(args.daily_returns))
    IN  [day |-> 0, equity |-> one, peak_equity |-> one,
         trailing_floor |-> one - args.max_total_dd * (one \div 100),
         daily_pnl_history |-> <<>>, phase_passed |-> FALSE, fail_reason |-> "None"]

\* a day whose pass check leaves the minimum trading days out
TrialDayWithoutMinDays(t, daily_return, args) ==
    LET one == Scale(Len(args.daily_returns))
        day == t.day + 1
        daily_pnl == (t.equity \div 100) * daily_return
        history == Append(t.daily_pnl_history, daily_pnl)
        begun == [t EXCEPT !.day = day, !.daily_pnl_history = history]
        equity == t.equity + daily_pnl
        raised == args.trailing_dd /\ equity > t.peak_equity
        peak_equity == IF raised THEN equity ELSE t.peak_equity
        trailing_floor == IF raised THEN equity - args.max_total_dd * (one \div 100)
                          ELSE t.trailing_floor
        compounded == [begun EXCEPT !.equity = equity, !.peak_equity = peak_equity,
                                    !.trailing_floor = trailing_floor]
        total_profit == SumSeq(history)
    IN  IF args.max_daily_dd > 0 /\ daily_return < -args.max_daily_dd
        THEN [begun EXCEPT !.fail_reason = "daily_dd"]
        ELSE IF args.trailing_dd /\ equity < trailing_floor
        THEN [compounded EXCEPT !.fail_reason = "total_dd"]
        ELSE IF ~args.trailing_dd /\ equity < one - args.max_total_dd * (one \div 100)
        THEN [compounded EXCEPT !.fail_reason = "total_dd"]
        ELSE IF /\ Truthy(args.consistency_rule)
                /\ Len(history) > 0
                /\ total_profit > 0
                /\ MaxSeq(history) * 100 > args.consistency_rule[1] * total_profit
        THEN [compounded EXCEPT !.fail_reason = "consistency"]
        ELSE IF equity >= one + args.profit_target * (one \div 100)
        THEN [compounded EXCEPT !.phase_passed = TRUE]
        ELSE compounded

\* a day that compounds before the daily drawdown check
TrialDayCompoundingFirst(t, daily_return, args) ==
    LET one == Scale(Len(args.daily_returns))
        day == t.day + 1
        daily_pnl == (t.equity \div 100) * daily_return
        history == Append(t.daily_pnl_history, daily_pnl)
        begun == [t EXCEPT !.day = day, !.daily_pnl_history = history]
        equity == t.equity + daily_pnl
        raised == args.trailing_dd /\ equity > t.peak_equity
        peak_equity == IF raised THEN equity ELSE t.peak_equity
        trailing_floor == IF raised THEN equity - args.max_total_dd * (one \div 100)
                          ELSE t.trailing_floor
        compounded == [begun EXCEPT !.equity = equity, !.peak_equity = peak_equity,
                                    !.trailing_floor = trailing_floor]
        total_profit == SumSeq(history)
    IN  IF args.max_daily_dd > 0 /\ daily_return < -args.max_daily_dd
        THEN [compounded EXCEPT !.fail_reason = "daily_dd"]
        ELSE IF args.trailing_dd /\ equity < trailing_floor
        THEN [compounded EXCEPT !.fail_reason = "total_dd"]
        ELSE IF ~args.trailing_dd /\ equity < one - args.max_total_dd * (one \div 100)
        THEN [compounded EXCEPT !.fail_reason = "total_dd"]
        ELSE IF /\ Truthy(args.consistency_rule)
                /\ Len(history) > 0
                /\ total_profit > 0
                /\ MaxSeq(history) * 100 > args.consistency_rule[1] * total_profit
        THEN [compounded EXCEPT !.fail_reason = "consistency"]
        ELSE IF day >= args.min_days /\ equity >= one + args.profit_target * (one \div 100)
        THEN [compounded EXCEPT !.phase_passed = TRUE]
        ELSE compounded

\* a day whose trailing floor stays under the starting equity
TrialDayFloorFromStart(t, daily_return, args) ==
    LET one == Scale(Len(args.daily_returns))
        day == t.day + 1
        daily_pnl == (t.equity \div 100) * daily_return
        history == Append(t.daily_pnl_history, daily_pnl)
        begun == [t EXCEPT !.day = day, !.daily_pnl_history = history]
        equity == t.equity + daily_pnl
        raised == args.trailing_dd /\ equity > t.peak_equity
        peak_equity == IF raised THEN equity ELSE t.peak_equity
        trailing_floor == t.trailing_floor
        compounded == [begun EXCEPT !.equity = equity, !.peak_equity = peak_equity,
                                    !.trailing_floor = trailing_floor]
        total_profit == SumSeq(history)
    IN  IF args.max_daily_dd > 0 /\ daily_return < -args.max_daily_dd
        THEN [begun EXCEPT !.fail_reason = "daily_dd"]
        ELSE IF args.trailing_dd /\ equity < trailing_floor
        THEN [compounded EXCEPT !.fail_reason = "total_dd"]
        ELSE IF ~args.trailing_dd /\ equity < one - args.max_total_dd * (one \div 100)
        THEN [compounded EXCEPT !.fail_reason = "total_dd"]
        ELSE IF /\ Truthy(args.consistency_rule)
                /\ Len(history) > 0
                /\ total_profit > 0
                /\ MaxSeq(history) * 100 > args.consistency_rule[1] * total_profit
        THEN [compounded EXCEPT !.fail_reason = "consistency"]
        ELSE IF day >= args.min_days /\ equity >= one + args.profit_target * (one \div 100)
        THEN [compounded EXCEPT !.phase_passed = TRUE]
        ELSE compounded

\* a day that applies the consistency rule whatever the cumulative profit
TrialDayConsistencyOnLoss(t, daily_return, args) ==
    LET one == Scale(Len(args.daily_returns))
        day == t.day + 1
        daily_pnl == (t.equity \div 100) * daily_return
        history == Append(t.daily_pnl_history, daily_pnl)
        begun == [t EXCEPT !.day = day, !.daily_pnl_history = history]
        equity == t.equity + daily_pnl
        raised == args.trailing_dd /\ equity > t.peak_equity
        peak_equity == IF raised THEN equity ELSE t.peak_equity
        trailing_floor == IF raised THEN equity - args.max_total_dd * (one \div 100)
                          ELSE t.trailing_floor
        compounded == [begun EXCEPT !.equity = equity, !.peak_equity = peak_equity,
                                    !.trailing_floor = trailing_floor]
        total_profit == SumSeq(history)
    IN  IF args.max_daily_dd > 0 /\ daily_return < -args.max_daily_dd
        THEN [begun EXCEPT !.fail_reason = "daily_dd"]
        ELSE IF args.trailing_dd /\ equity < trailing_floor
        THEN [compounded EXCEPT !.fail_reason = "total_dd"]
        ELSE IF ~args.trailing_dd /\ equity < one - args.max_total_dd * (one \div 100)
        THEN [compounded EXCEPT !.fail_reason = "total_dd"]
        ELSE IF /\ Truthy(args.consistency_rule)
                /\ Len(history) > 0
                /\ MaxSeq(history) * 100 > args.consistency_rule[1] * total_profit
        THEN [compounded EXCEPT !.fail_reason = "consistency"]
        ELSE IF day >= args.min_days /\ equity >= one + args.profit_target * (one \div 100)
        THEN [compounded EXCEPT !.phase_passed = TRUE]
        ELSE compounded

\* the body of (for daily_return in shuffled_returns) for one day
TrialDay(t, daily_return, args) ==
    LET one == Scale(Len(args.daily_returns))
        day == t.day + 1
        daily_pnl == (t.equity \div 100) * daily_return
        history == Append(t.daily_pnl_history, daily_pnl)
        begun == [t EXCEPT !.day = day, !.daily_pnl_history = history]
        equity == t.equity + daily_pnl
        raised == args.trailing_dd /\ equity > t.peak_equity
        peak_equity == IF raised THEN equity ELSE t.peak_equity
        trailing_floor == IF raised THEN equity - args.max_total_dd * (one \div 100)
                          ELSE t.trailing_floor
        compounded == [begun EXCEPT !.equity = equity, !.peak_equity = peak_equity,
                                    !.trailing_floor = trailing_floor]
        total_profit == SumSeq(history)
    IN  IF args.max_daily_dd > 0 /\ daily_return < -args.max_daily_dd
        THEN [begun EXCEPT !.fail_reason = "daily_dd"]
        ELSE IF args.trailing_dd /\ equity < trailing_floor
        THEN [compounded EXCEPT !.fail_reason = "total_dd"]
        ELSE IF ~args.trailing_dd /\ equity < one - args.max_total_dd * (one \div 100)
        THEN [compounded EXCEPT !.fail_reason = "total_dd"]
        ELSE IF /\ Truthy(args.consistency_rule)
                /\ Len(history) > 0
                /\ total_profit > 0
                /\ MaxSeq(history) * 100 > args.consistency_rule[1] * total_profit
        THEN [compounded EXCEPT !.fail_reason = "consistency"]
        ELSE IF day >= args.min_days /\ equity >= one + args.profit_target * (one \div 100)
        THEN [compounded EXCEPT !.phase_passed = TRUE]
        ELSE compounded

\* the walk over the shuffled returns, from day (t.day + 1) on, until a break or
\* the end of the array
RECURSIVE Walk(_, _, _)
Walk(t, shuffled_returns, args) ==
    IF t.phase_passed \/ t.fail_reason # "None" \/ t.day >= Len(shuffled_returns)
    THEN t
    ELSE Walk(TrialDay(t, shuffled_returns[t.day + 1], args), shuffled_returns, args)

\* one trial of _simulate_phase
Trial(shuffled_returns, args) == Walk(TrialStart(args), shuffled_returns, args)

\* the counters of _simulate_phase before the first trial
NoTally == [passed |-> 0, failed_daily_dd |-> 0, failed_total_dd |-> 0,
            failed_consistency |-> 0, days_to_pass |-> <<>>]

\* a count that leaves the consistency failures out
TimeExpiredWithoutConsistency(n_sims, tally) ==
    n_sims - tally.passed - tally.failed_daily_dd - tally.failed_total_dd

\* the numerator of fail_reasons.time_expired
TimeExpired(n_sims, tally) ==
    n_sims - tally.passed - tally.failed_daily_dd - tally.failed_total_dd
           - tally.failed_consistency

\* the if/elif chain after a trial
Tally(tally, t) ==
    IF t.phase_passed
    THEN [tally EXCEPT !.passed = @ + 1, !.days_to_pass = Append(@, t.day)]
    ELSE IF t.fail_reason = "daily_dd" THEN [tally EXCEPT !.failed_daily_dd = @ + 1]
    ELSE IF t.fail_reason = "total_dd" THEN [tally EXCEPT !.failed_total_dd = @ + 1]
    ELSE IF t.fail_reason = "consistency" THEN [tally EXCEPT !.failed_consistency = @ + 1]
    ELSE tally

\* the dict _simulate_phase returns
PhaseReport(n_sims, tally) ==
    LET pass_rate == Rat(tally.passed, n_sims)
        some == tally.days_to_pass # <<>>
    IN  [pass_rate |-> pass_rate,
         fail_rate |-> RatSub(RatOne, pass_rate),
         fail_reasons |->
             [daily_drawdown |-> Rat(tally.failed_daily_dd, n_sims),
              total_drawdown |-> Rat(tally.failed_total_dd, n_sims),
              consistency    |-> Rat(tally.failed_consistency, n_sims),
              time_expired   |-> Rat(TimeExpired(n_sims, tally), n_sims)],
         avg_days_to_pass |-> IF some THEN <<Mean(tally.days_to_pass)>> ELSE None,
         days_to_pass_distribution |->
             [p25 |-> IF some THEN <<Percentile(tally.days_to_pass, 25)>> ELSE None,
              p50 |-> IF some THEN <<Percentile(tally.days_to_pass, 50)>> ELSE None,
              p75 |-> IF some THEN <<Percentile(tally.days_to_pass, 75)>> ELSE None]]

\* a funded trial is a walk over the 12 x 21 days of the shuffled tiling of
\* daily_returns; it is represented by what it leaves behind: whether a rule was
\* violated, and the trial's entry in monthly_profits.  Equity falls only on a
\* negative return, and it rises only on a positive one.
FundedTrials(returns) ==
    LET falls == \E i \in 1..Len(returns) : returns[i] < 0
        rises == \E i \in 1..Len(returns) : returns[i] > 0
    IN  { o \in [violated : BOOLEAN, profit : {-2000, 0, 3000}] :
            /\ o.violated => (falls /\ o.profit >= 0)
            /\ o.profit < 0 => falls
            /\ o.profit > 0 => rises
            /\ (o.profit = 0 /\ ~o.violated) => ~(falls \/ rises) }

SelectPositive(values) == SelectSeq(values, LAMBDA p : p > 0)

\* the dict _simulate_funded_account returns (months = 12)
FundedReport(n_sims, violations, profits) ==
    [violation_rate |-> Rat(violations, n_sims),
     survival_rate  |-> RatSub(RatOne, Rat(violations, n_sims)),
     expected_monthly_profit |->
         IF SelectPositive(profits) # <<>>
         THEN Rat(SumSeq(SelectPositive(profits)),
                  12 * Len(SelectPositive(profits)))
         ELSE RatZero,
     total_profit_distribution |->
         [mean |-> Mean(profits),
          p10  |-> Percentile(profits, 10),
          p25  |-> Percentile(profits, 25),
          p50  |-> Percentile(profits, 50),
          p75  |-> Percentile(profits, 75),
          p90  |-> Percentile(profits, 90)]]

\* a tier list that tests ROI > 0.5 before ROI > 2
GenerateRecommendationReordered(pass_rate, break_even, roi) ==
    IF RatGt(roi, Rat(1, 2)) THEN [verdict |-> "RECOMMENDED", color |-> "green"]
    ELSE IF RatGt(roi, Rat(2, 1)) THEN [verdict |-> "HIGHLY RECOMMENDED", color |-> "green"]
    ELSE IF RatGt(roi, RatZero) THEN [verdict |-> "MARGINAL", color |-> "yellow"]
    ELSE IF RatGt(pass_rate, RatMul(break_even, Rat(8, 10)))
    THEN [verdict |-> "NOT RECOMMENDED", color |-> "orange"]
    ELSE [verdict |-> "AVOID", color |-> "red"]

\* _generate_recommendation
GenerateRecommendation(pass_rate, break_even, roi) ==
    IF RatGt(roi, Rat(2, 1)) THEN [verdict |-> "HIGHLY RECOMMENDED", color |-> "green"]
    ELSE IF RatGt(roi, Rat(1, 2)) THEN [verdict |-> "RECOMMENDED", color |-> "green"]
    ELSE IF RatGt(roi, RatZero) THEN [verdict |-> "MARGINAL", color |-> "yellow"]
    ELSE IF RatGt(pass_rate, RatMul(break_even, Rat(8, 10)))
    THEN [verdict |-> "NOT RECOMMENDED", color |-> "orange"]
    ELSE [verdict |-> "AVOID", color |-> "red"]

\* _calculate_expected_value
CalculateExpectedValue(pass_rate, funded_sim, rule_record) ==
    LET challenge_cost == Rat(rule_record.challenge_cost, 1)
        expected_funded_profit == funded_sim.total_profit_distribution.mean
        ev == RatSub(RatMul(pass_rate, expected_funded_profit), challenge_cost)
        break_even_pass_rate ==
            IF RatGt(expected_funded_profit, RatZero)
            THEN Rat(rule_record.challenge_cost * expected_funded_profit[2],
                     expected_funded_profit[1])
            ELSE RatOne
        roi == IF rule_record.challenge_cost > 0
               THEN Rat(ev[1], ev[2] * rule_record.challenge_cost)
               ELSE RatZero
    IN  [expected_value |-> ev, roi |-> roi,
         break_even_pass_rate |-> break_even_pass_rate,
         current_pass_rate |-> pass_rate,
         edge_over_break_even |-> RatSub(pass_rate, break_even_pass_rate),
         recommendation |-> GenerateRecommendation(pass_rate, break_even_pass_rate, roi)]

\* a condition that also runs phase 2 for a zero target
RunsPhase2OnZeroTarget(rule_record) == rule_record.profit_target_phase2 >= 0

\* if rules.profit_target_phase2 > 0
RunsPhase2(rule_record) == rule_record.profit_target_phase2 > 0

\* phase1_pass * phase2_pass, phase2_pass being 1.0 without a phase 2
CombinedPassRate(phase1, phase2) ==
    RatMul(phase1.pass_rate, IF phase2 # None THEN phase2[1].pass_rate ELSE RatOne)

NoResults == [prop_firm |-> "", phase1 |-> None, phase2 |-> None,
              combined_pass_rate |-> None, funded_simulation |-> None,
              expected_value |-> None]

Raise(exception, message) == [kind |-> "raise", exception |-> exception, message |-> message]

\* simulate_prop_firm's try/except around the call
HttpResponse(outcome) ==
    IF outcome.kind = "return" THEN [status |-> 200, body |-> outcome.value]
    ELSE IF outcome.exception = "ValueError" THEN [status |-> 400, body |-> outcome.message]
    ELSE [status |-> 500, body |-> outcome.message]

NoResponse == [status |-> 0, body |-> <<>>]

\* the call ends: the caller of simulate_challenge gets the outcome, and the
\* client of the endpoint the response made from it
Finish(outcome, endpoint) ==
    /\ propPc' = "done"
    /\ propOutcome' = outcome
    /\ httpResponse' = IF endpoint THEN HttpResponse(outcome) ELSE NoResponse

\* simulate_challenge from its first line to the first trial of phase 1
BeginChallenge(returns, firm, custom, n_sims, endpoint) ==
    /\ propPc = "idle"
    /\ viaEndpoint' = endpoint
    /\ daily_returns' = returns
    /\ prop_firm' = firm
    /\ custom_rules' = custom
    /\ n_simulations' = n_sims
    /\ IF custom # None \/ HasConfig(firm)
       THEN /\ rules' = IF custom # None THEN custom[1] ELSE PROP_FIRM_CONFIGS[firm]
            /\ phaseCalls' = <<PhaseArgs(returns, rules', rules'.profit_target_phase1)>>
            /\ walkedOut' = <<0>>
            /\ results' = [NoResults EXCEPT !.prop_firm = rules'.name]
            /\ propPc' = "phase1"
            /\ UNCHANGED <<propOutcome, httpResponse>>
       ELSE /\ Finish(Raise("KeyError", KeyErrorMessage(firm)), endpoint)
            /\ UNCHANGED <<rules, phaseCalls, walkedOut, results>>
    /\ UNCHANGED <<trialNo, counts, lastTrial, violation_count, monthly_profits>>
    /\ UNCHANGED otherThanProp

\* POST /prop-firm/simulate: the request carries a member of the schema's class
SimulatePropFirm(returns, firm, n_sims) ==
    /\ firm \in SchemaFirms
    /\ BeginChallenge(returns, firm, None, n_sims, TRUE)

\* PropFirmSimulator(n_simulations).simulate_challenge called directly
SimulateChallenge(returns, firm, custom, n_sims) ==
    BeginChallenge(returns, firm, custom, n_sims, FALSE)

\* one pass of (for _ in range(self.n_simulations)) in _simulate_phase
PhaseTrial(shuffled_returns) ==
    /\ propPc \in {"phase1", "phase2"}
    /\ trialNo < n_simulations
    /\ LET args == phaseCalls[Len(phaseCalls)]
           t == Trial(shuffled_returns, args)
       IN  /\ shuffled_returns \in Arrangements(args.daily_returns)
           /\ counts' = Tally(counts, t)
           /\ lastTrial' = [phase_passed |-> t.phase_passed, fail_reason |-> t.fail_reason,
                            day |-> t.day]
           /\ walkedOut' = IF ~t.phase_passed /\ t.fail_reason = "None"
                           THEN [walkedOut EXCEPT ![Len(walkedOut)] = @ + 1]
                           ELSE walkedOut
    /\ trialNo' = trialNo + 1
    /\ UNCHANGED <<propPc, viaEndpoint, daily_returns, prop_firm, custom_rules,
                   n_simulations, rules, phaseCalls, results, violation_count,
                   monthly_profits, propOutcome, httpResponse>>
    /\ UNCHANGED otherThanProp

\* _simulate_phase after its last trial, and simulate_challenge up to the next
\* trial: the rates (a division by n_simulations), then phase 2 if it is to run,
\* else the combined pass rate and the funded simulation
PhaseEnd ==
    /\ propPc \in {"phase1", "phase2"}
    /\ trialNo = n_simulations
    /\ IF n_simulations = 0
       THEN /\ Finish(Raise("ZeroDivisionError", <<"division by zero">>), viaEndpoint)
            /\ UNCHANGED <<phaseCalls, walkedOut, results>>
       ELSE LET report == PhaseReport(n_simulations, counts)
            IN  IF propPc = "phase1" /\ RunsPhase2(rules)
                THEN /\ results' = [results EXCEPT !.phase1 = <<report>>]
                     /\ phaseCalls' = Append(phaseCalls,
                            PhaseArgs(daily_returns, rules, rules.profit_target_phase2))
                     /\ walkedOut' = Append(walkedOut, 0)
                     /\ propPc' = "phase2"
                     /\ UNCHANGED <<propOutcome, httpResponse>>
                ELSE LET phase1 == IF propPc = "phase1" THEN <<report>> ELSE results.phase1
                         phase2 == IF propPc = "phase1" THEN None ELSE <<report>>
                     IN  /\ results' = [results EXCEPT
                                !.phase1 = phase1, !.phase2 = phase2,
                                !.combined_pass_rate = <<CombinedPassRate(phase1[1], phase2)>>]
                         /\ UNCHANGED <<phaseCalls, walkedOut>>
                         /\ propPc' = "funded"
                         /\ UNCHANGED <<propOutcome, httpResponse>>
    /\ trialNo' = 0
    /\ counts' = NoTally
    /\ UNCHANGED <<viaEndpoint, daily_returns, prop_firm, custom_rules, n_simulations,
                   rules, lastTrial, violation_count, monthly_profits>>
    /\ UNCHANGED otherThanProp

\* one pass of (for _ in range(self.n_simulations)) in _simulate_funded_account;
\* the tiling divides by len(daily_returns)
FundedTrial(trial) ==
    /\ propPc = "funded"
    /\ trialNo < n_simulations
    /\ IF daily_returns = <<>>
       THEN /\ Finish(Raise("ZeroDivisionError",
                            <<"integer division or modulo by zero">>), viaEndpoint)
            /\ UNCHANGED <<trialNo, violation_count, monthly_profits>>
       ELSE /\ trial \in FundedTrials(daily_returns)
            /\ violation_count' = IF trial.violated THEN violation_count + 1
                                  ELSE violation_count
            /\ monthly_profits' = Append(monthly_profits, trial.profit)
            /\ trialNo' = trialNo + 1
            /\ UNCHANGED <<propPc, propOutcome, httpResponse>>
    /\ UNCHANGED <<viaEndpoint, daily_returns, prop_firm, custom_rules, n_simulations,
                   rules, phaseCalls, results, counts, walkedOut, lastTrial>>
    /\ UNCHANGED otherThanProp

\* _simulate_funded_account after its last trial, _calculate_expected_value and
\* the return of simulate_challenge
FundedEnd ==
    /\ propPc = "funded"
    /\ trialNo = n_simulations
    /\ LET funded == FundedReport(n_simulations, violation_count, monthly_profits)
           ev == CalculateExpectedValue(results.combined_pass_rate[1], funded, rules)
       IN  /\ results' = [results EXCEPT !.funded_simulation = <<funded>>,
                                         !.expected_value = <<ev>>]
           /\ Finish([kind |-> "return", value |-> results'], viaEndpoint)
    /\ UNCHANGED <<viaEndpoint, daily_returns, prop_firm, custom_rules, n_simulations,
                   rules, phaseCalls, trialNo, counts, walkedOut, lastTrial,
                   violation_count, monthly_profits>>
    /\ UNCHANGED otherThanProp

NoTrial == [phase_passed |-> FALSE, fail_reason |-> "None", day |-> 0]
NoOutcome == [kind |-> "none"]

PropIdle ==
    /\ propPc = "idle"
    /\ viaEndpoint = FALSE
    /\ daily_returns = <<>>
    /\ prop_firm = Member("service", <<"FTMO", "ftmo">>)
    /\ custom_rules = None
    /\ n_simulations = 0
    /\ rules = None
    /\ phaseCalls = <<>>
    /\ results = NoResults
    /\ trialNo = 0
    /\ counts = NoTally
    /\ walkedOut = <<>>
    /\ lastTrial = NoTrial
    /\ violation_count = 0
    /\ monthly_profits = <<>>
    /\ propOutcome = NoOutcome
    /\ httpResponse = NoResponse

\* inputs
ReturnValues == {-6, -5, 4, 8}
DailyReturnSeries ==
    UNION { {s \in [1..n -> ReturnValues] : \A i \in 1..(n - 1) : s[i] <= s[i + 1]} :
            n \in 0..MaxDays }
\* the firms a caller passes along with custom rules (the firm is then not used)
FirmsWithCustomRules == {Member("service", <<"FTMO", "ftmo">>), Member("schemas", <<"MFF", "mff">>)}

\* --------------------------------------------------- properties: prop firm

RatAdd(x, y) == <<x[1] * y[2] + y[1] * x[2], x[2] * y[2]>>
InUnitInterval(x) == x[2] > 0 /\ 0 <= x[1] /\ x[1] <= x[2]

\* a call for a firm, without custom rules, has ended
EndedFor(firm_values) ==
    /\ propPc = "done"
    /\ custom_rules = None
    /\ prop_firm.value \in firm_values

\* C2: for a firm of the enumeration without a configured rule record (topstep,
\* mff) and no custom rules, simulate_challenge raises a ValueError whose message
\* contains "Unsupported prop firm" before any trial is run, and the endpoint
\* answers 400 with that detail; any other failure is answered with 500.
C2_AsStated ==
    /\ EndedFor({"topstep", "mff"}) =>
          /\ propOutcome.kind = "raise"
          /\ propOutcome.exception = "ValueError"
          /\ \E i \in 1..Len(propOutcome.message) :
                 propOutcome.message[i] = "Unsupported prop firm"
          /\ phaseCalls = <<>>
          /\ viaEndpoint => /\ httpResponse.status = 400
                            /\ httpResponse.body = propOutcome.message
    /\ (propPc = "done" /\ viaEndpoint /\ propOutcome.kind = "raise"
          /\ propOutcome.exception # "ValueError") => httpResponse.status = 500

\* C3: for each of the four configured firms (ftmo, the5ers, apex, e8), passed as
\* a member of the request schema's enumeration with no custom rules,
\* simulate_challenge resolves the firm's rule record and returns a report whose
\* prop_firm is the record's name and whose combined_pass_rate is in [0,1]; the
\* endpoint answers 200.
C3_AsStated ==
    (/\ EndedFor({"ftmo", "the5ers", "apex", "e8"})
     /\ prop_firm \in SchemaFirms
     /\ n_simulations >= 1
     /\ daily_returns # <<>>) =>
          /\ propOutcome.kind = "return"
          /\ propOutcome.value.prop_firm =
                 PROP_FIRM_CONFIGS[Member("service", <<prop_firm.name, prop_firm.value>>)].name
          /\ InUnitInterval(propOutcome.value.combined_pass_rate[1])
          /\ viaEndpoint => httpResponse.status = 200

\* the phase reports made so far, each with the number of its _simulate_phase call
PhaseReports ==
    (IF results.phase1 # None THEN {<<1, results.phase1[1]>>} ELSE {})
    \cup (IF results.phase2 # None THEN {<<2, results.phase2[1]>>} ELSE {})

\* C9: in a phase simulation with at least one trial, every trial is counted in
\* exactly one of passed, daily_drawdown, total_drawdown, consistency and
\* time_expired; time_expired counts exactly the trials whose walk reached the
\* end of the returns with neither a pass nor a failure; pass_rate plus the four
\* fail-reason fractions is 1, and fail_rate is 1 - pass_rate.
C9_TrialsPartition ==
    /\ propPc \in {"phase1", "phase2"} =>
          /\ trialNo = counts.passed + counts.failed_daily_dd + counts.failed_total_dd
                       + counts.failed_consistency + walkedOut[Len(walkedOut)]
          /\ Len(counts.days_to_pass) = counts.passed
          /\ ~(lastTrial.phase_passed /\ lastTrial.fail_reason # "None")
    /\ \A pr \in PhaseReports :
          LET r == pr[2]
              reasons == r.fail_reasons
          IN  /\ n_simulations >= 1
              /\ reasons.time_expired = Rat(walkedOut[pr[1]], n_simulations)
              /\ \A x \in {r.pass_rate, reasons.daily_drawdown, reasons.total_drawdown,
                           reasons.consistency, reasons.time_expired} :
                     InUnitInterval(x)
              /\ RatEq(RatAdd(r.pass_rate,
                         RatAdd(reasons.daily_drawdown,
                           RatAdd(reasons.total_drawdown,
                             RatAdd(reasons.consistency, reasons.time_expired)))),
                       RatOne)
              /\ RatEq(RatAdd(r.fail_rate, r.pass_rate), RatOne)

\* C9 witness: a phase with two trials of which one passed and one walked through
\* every return without passing or failing
C9_Witness ==
    /\ n_simulations = 2
    /\ results.phase1 # None
    /\ results.phase1[1].pass_rate = Rat(1, 2)
    /\ results.phase1[1].fail_reasons.time_expired = Rat(1, 2)
    /\ walkedOut[1] = 1

\* C10: phase 2 is run iff the rules' phase-2 target is > 0; without it the
\* report's phase2 is null and combined_pass_rate is the phase-1 pass rate; with
\* it combined_pass_rate is the product of the two pass rates, and phase 2 is
\* simulated with the same returns and the same drawdown, minimum-day, trailing
\* and consistency settings as phase 1, only the target differing.
C10_Phase2 ==
    /\ propPc \in {"phase1", "phase2", "funded"} =>
          /\ phaseCalls[1].daily_returns = daily_returns
          /\ phaseCalls[1].profit_target = rules.profit_target_phase1
          /\ phaseCalls[1].max_daily_dd = rules.max_daily_drawdown
          /\ phaseCalls[1].max_total_dd = rules.max_total_drawdown
          /\ phaseCalls[1].min_days = rules.min_trading_days
          /\ phaseCalls[1].trailing_dd = rules.trailing_drawdown
          /\ phaseCalls[1].consistency_rule = rules.consistency_rule
    /\ propPc = "phase1" => Len(phaseCalls) = 1
    /\ propPc = "phase2" => rules.profit_target_phase2 > 0
    /\ (propPc = "funded" \/ (propPc = "done" /\ propOutcome.kind = "return")) =>
          IF rules.profit_target_phase2 > 0
          THEN /\ Len(phaseCalls) = 2
               /\ phaseCalls[2] =
                      [phaseCalls[1] EXCEPT !.profit_target = rules.profit_target_phase2]
               /\ results.phase2 # None
               /\ RatEq(results.combined_pass_rate[1],
                        RatMul(results.phase1[1].pass_rate, results.phase2[1].pass_rate))
          ELSE /\ Len(phaseCalls) = 1
               /\ results.phase2 = None
               /\ RatEq(results.combined_pass_rate[1], results.phase1[1].pass_rate)

\* C10 witness: a returned report of a two-phase firm whose phases each passed one
\* trial in two: the combined rate is a quarter
C10_Witness ==
    /\ propPc = "done"
    /\ propOutcome.kind = "return"
    /\ rules.profit_target_phase2 > 0
    /\ results.phase1[1].pass_rate = Rat(1, 2)
    /\ results.phase2[1].pass_rate = Rat(1, 2)
    /\ RatEq(results.combined_pass_rate[1], Rat(1, 4))

\* the figures of a returned report, computed from its combined pass rate, its
\* mean funded total profit and the fee
StatedExpectedValue ==
    LET pass == results.combined_pass_rate[1]
        mean == results.funded_simulation[1].total_profit_distribution.mean
        fee == rules.challenge_cost
        ev == RatSub(RatMul(pass, mean), Rat(fee, 1))
        roi == IF fee > 0 THEN Rat(ev[1], ev[2] * fee) ELSE RatZero
        break_even == IF mean[1] > 0 THEN Rat(fee * mean[2], mean[1]) ELSE RatOne
    IN  [ev |-> ev, roi |-> roi, break_even |-> break_even,
         tier |-> IF roi[1] > 2 * roi[2] THEN <<"HIGHLY RECOMMENDED", "green">>
                  ELSE IF 2 * roi[1] > roi[2] THEN <<"RECOMMENDED", "green">>
                  ELSE IF roi[1] > 0 THEN <<"MARGINAL", "yellow">>
                  ELSE IF 10 * pass[1] * break_even[2] > 8 * break_even[1] * pass[2]
                  THEN <<"NOT RECOMMENDED", "orange">>
                  ELSE <<"AVOID", "red">>]

\* C11: the recommendation of a returned report is the first matching tier of:
\* ROI > 2 HIGHLY RECOMMENDED (green), ROI > 0.5 RECOMMENDED (green), ROI > 0
\* MARGINAL (yellow), combined pass rate > 0.8 x break-even NOT RECOMMENDED
\* (orange), else AVOID (red); with EV = combined pass rate x mean funded total
\* profit - fee, ROI = EV / fee for a fee > 0 and 0 otherwise, break-even = fee /
\* mean funded total profit for a positive mean and 1.0 otherwise.
C11_Recommendation ==
    (propPc = "done" /\ propOutcome.kind = "return") =>
        LET report == propOutcome.value.expected_value[1]
        IN  /\ RatEq(report.expected_value, StatedExpectedValue.ev)
            /\ RatEq(report.roi, StatedExpectedValue.roi)
            /\ RatEq(report.break_even_pass_rate, StatedExpectedValue.break_even)
            /\ RatEq(report.current_pass_rate, results.combined_pass_rate[1])
            /\ <<report.recommendation.verdict, report.recommendation.color>>
                   = StatedExpectedValue.tier

\* C11 witness: a returned report with ROI above 2, which also matches the lower
\* ROI tiers, recommended as HIGHLY RECOMMENDED
C11_Witness ==
    /\ propPc = "done"
    /\ propOutcome.kind = "return"
    /\ rules.challenge_cost > 0
    /\ RatGt(propOutcome.value.expected_value[1].roi, Rat(2, 1))
    /\ propOutcome.value.expected_value[1].recommendation.verdict = "HIGHLY RECOMMENDED"

\* -------------------------------------------------------- BacktestService
\* Prices are whole numbers, money and ratios are fractions in lowest terms.

\* rolling(9) and rolling(21)
FastWindow == 9
SlowWindow == 21

Abs(x) == IF x < 0 THEN -x ELSE x

RECURSIVE GCD(_, _)
GCD(a, b) == IF b = 0 THEN a ELSE GCD(b, a % b)

\* a fraction in lowest terms, its denominator positive
Norm(x) ==
    LET n == IF x[2] < 0 THEN -x[1] ELSE x[1]
        d == Abs(x[2])
        g == GCD(Abs(n), d)
    IN  <<n \div g, d \div g>>
NAdd(x, y) == Norm(RatAdd(x, y))
NSub(x, y) == Norm(RatSub(x, y))
NMul(x, y) == Norm(RatMul(x, y))
NDiv(x, y) == Norm(<<x[1] * y[2], x[2] * y[1]>>)

RECURSIVE NSum(_)
NSum(s) == IF s = <<>> THEN RatZero ELSE NAdd(Head(s), NSum(Tail(s)))

\* data['close'].iloc[i]
Close(data, i) == data[i + 1]

\* window * data['close'].rolling(window).mean().iloc[i], for i >= window - 1
RECURSIVE RollingSum(_, _, _)
RollingSum(data, i, window) ==
    IF window = 0 THEN 0 ELSE Close(data, i) + RollingSum(data, i - 1, window - 1)

\* data['sma_fast'].iloc[i] > data['sma_slow'].iloc[i]
FastAbove(data, i) ==
    SlowWindow * RollingSum(data, i, FastWindow) > FastWindow * RollingSum(data, i, SlowWindow)
\* data['sma_fast'].iloc[i] < data['sma_slow'].iloc[i]
FastBelow(data, i) ==
    SlowWindow * RollingSum(data, i, FastWindow) < FastWindow * RollingSum(data, i, SlowWindow)

\* no open position
Flat == <<>>

\* the dict appended when a position is closed on bar i
ClosedTrade(position, data, i, initial_capital) ==
    LET exit_price == Close(data, i)
        pnl == exit_price - position.entry_price
    IN  [entry_time |-> position.entry_time,
         exit_time  |-> i,
         pnl        |-> Norm(<<pnl * initial_capital, position.entry_price>>),
         return_pct |-> Norm(<<pnl, position.entry_price>>)]

\* a scan that closes a position left open on the last bar
RECURSIVE ScanBarsClosingAtEnd(_, _, _, _, _)
ScanBarsClosingAtEnd(data, i, position, trades, initial_capital) ==
    IF i >= Len(data) - 1
    THEN IF position = Flat \/ i > Len(data) - 1 THEN trades
         ELSE Append(trades, ClosedTrade(position[1], data, i, initial_capital))
    ELSE IF position = Flat
    THEN IF FastAbove(data, i) /\ ~FastAbove(data, i - 1)
         THEN ScanBarsClosingAtEnd(data, i + 1,
                       <<[entry_time |-> i, entry_price |-> Close(data, i),
                          direction |-> "long"]>>,
                       trades, initial_capital)
         ELSE ScanBarsClosingAtEnd(data, i + 1, position, trades, initial_capital)
    ELSE IF FastBelow(data, i)
         THEN ScanBarsClosingAtEnd(data, i + 1, Flat,
                       Append(trades, ClosedTrade(position[1], data, i, initial_capital)),
                       initial_capital)
         ELSE ScanBarsClosingAtEnd(data, i + 1, position, trades, initial_capital)

\* (for i in range(21, len(data) - 1)) from bar i on
RECURSIVE ScanBars(_, _, _, _, _)
ScanBars(data, i, position, trades, initial_capital) ==
    IF i >= Len(data) - 1 THEN trades
    ELSE IF position = Flat
    THEN IF FastAbove(data, i) /\ ~FastAbove(data, i - 1)
         THEN ScanBars(data, i + 1,
                       <<[entry_time |-> i, entry_price |-> Close(data, i),
                          direction |-> "long"]>>,
                       trades, initial_capital)
         ELSE ScanBars(data, i + 1, position, trades, initial_capital)
    ELSE IF FastBelow(data, i)
         THEN ScanBars(data, i + 1, Flat,
                       Append(trades, ClosedTrade(position[1], data, i, initial_capital)),
                       initial_capital)
         ELSE ScanBars(data, i + 1, position, trades, initial_capital)

\* _simulate_trades
SimulateTrades(data, initial_capital) == ScanBars(data, SlowWindow, Flat, <<>>, initial_capital)

\* _calculate_equity_curve; the date of the first point ("Start") is bar 0
RECURSIVE CurveFrom(_, _)
CurveFrom(equity, trades) ==
    IF trades = <<>> THEN <<>>
    ELSE <<[date |-> Head(trades).exit_time, equity |-> NAdd(equity, Head(trades).pnl)]>>
         \o CurveFrom(NAdd(equity, Head(trades).pnl), Tail(trades))

CalculateEquityCurve(trades, initial_capital) ==
    <<[date |-> 0, equity |-> <<initial_capital, 1>>]>>
    \o CurveFrom(<<initial_capital, 1>>, trades)

\* np.maximum.accumulate(equities)[k]
RECURSIVE RunningMax(_, _)
RunningMax(equities, k) ==
    IF k = 1 THEN equities[1]
    ELSE IF RatGt(equities[k], RunningMax(equities, k - 1)) THEN equities[k]
    ELSE RunningMax(equities, k - 1)

\* np.max over the first k drawdowns
RECURSIVE MaxDrawdown(_, _)
MaxDrawdown(equities, k) ==
    LET drawdown == NDiv(NSub(RunningMax(equities, k), equities[k]), RunningMax(equities, k))
    IN  IF k = 1 THEN drawdown
        ELSE IF RatGt(drawdown, MaxDrawdown(equities, k - 1)) THEN drawdown
        ELSE MaxDrawdown(equities, k - 1)

\* np.mean(returns) / np.std(returns) * np.sqrt(252), kept as its sign and its
\* square; 0 when the deviation is 0
SharpeRatio(returns) ==
    LET n == <<Len(returns), 1>>
        mean == NDiv(NSum(returns), n)
        squares == [k \in 1..Len(returns) |-> NMul(returns[k], returns[k])]
        variance == NSub(NDiv(NSum(squares), n), NMul(mean, mean))
    IN  IF RatGt(variance, RatZero)
        THEN [sign   |-> IF mean[1] > 0 THEN 1 ELSE IF mean[1] < 0 THEN -1 ELSE 0,
              square |-> NDiv(NMul(<<252, 1>>, NMul(mean, mean)), variance)]
        ELSE [sign |-> 0, square |-> RatZero]

\* _calculate_metrics
CalculateMetrics(trades, equity_curve, initial_capital) ==
    IF trades = <<>>
    THEN [total_return |-> RatZero, sharpe_ratio |-> [sign |-> 0, square |-> RatZero],
          max_drawdown |-> RatZero, win_rate |-> RatZero, profit_factor |-> RatZero]
    ELSE LET returns == [k \in 1..Len(trades) |-> trades[k].return_pct]
             pnls == [k \in 1..Len(trades) |-> trades[k].pnl]
             capital == <<initial_capital, 1>>
             final_equity == equity_curve[Len(equity_curve)].equity
             equities == [k \in 1..Len(equity_curve) |-> equity_curve[k].equity]
             wins == SelectSeq(pnls, LAMBDA p : p[1] > 0)
             losses == SelectSeq(pnls, LAMBDA p : p[1] < 0)
             gross_profit == NSum(wins)
             gross_loss == <<Abs(NSum(losses)[1]), NSum(losses)[2]>>
         IN  [total_return  |-> NDiv(NSub(final_equity, capital), capital),
              sharpe_ratio  |-> SharpeRatio(returns),
              max_drawdown  |-> MaxDrawdown(equities, Len(equities)),
              win_rate      |-> Norm(<<Len(wins), Len(pnls)>>),
              profit_factor |-> IF gross_loss[1] > 0 THEN NDiv(gross_profit, gross_loss)
                                ELSE RatZero]

\* a run_backtest that leaves the market alone for a strategy without source
BacktestReportReadingStrategy(strategy_code, data, initial_capital) ==
    LET trades == IF strategy_code = "" THEN <<>> ELSE SimulateTrades(data, initial_capital)
        equity_curve == CalculateEquityCurve(trades, initial_capital)
        metrics == CalculateMetrics(trades, equity_curve, initial_capital)
    IN  [total_return |-> metrics.total_return, sharpe_ratio |-> metrics.sharpe_ratio,
         max_drawdown |-> metrics.max_drawdown, win_rate |-> metrics.win_rate,
         profit_factor |-> metrics.profit_factor, total_trades |-> Len(trades),
         trades |-> trades, equity_curve |-> equity_curve]

\* run_backtest after the price history arrived: the returned dict
BacktestReport(strategy_code, data, initial_capital) ==
    LET trades == SimulateTrades(data, initial_capital)
        equity_curve == CalculateEquityCurve(trades, initial_capital)
        metrics == CalculateMetrics(trades, equity_curve, initial_capital)
    IN  [total_return |-> metrics.total_return, sharpe_ratio |-> metrics.sharpe_ratio,
         max_drawdown |-> metrics.max_drawdown, win_rate |-> metrics.win_rate,
         profit_factor |-> metrics.profit_factor, total_trades |-> Len(trades),
         trades |-> trades, equity_curve |-> equity_curve]

\* POST /backtest/run: run_backtest with the request's fields; history is what
\* ticker.history did, a price series (a one-element tuple) or a raise (None)
RunBacktest(strategy_code, symbol, date_range, initial_capital, history) ==
    backtests' = Append(backtests,
        [strategy_code |-> strategy_code, symbol |-> symbol, date_range |-> date_range,
         initial_capital |-> initial_capital, history |-> history,
         response |-> IF history = None
                      THEN [status |-> 500, body |-> <<>>]
                      ELSE [status |-> 200,
                            body |-> <<BacktestReport(strategy_code, history[1],
                                                      initial_capital)>>]])

\* the first request
FirstBacktest(strategy_code, symbol, date_range, initial_capital, history) ==
    /\ backtests = <<>>
    /\ RunBacktest(strategy_code, symbol, date_range, initial_capital, history)
    /\ UNCHANGED otherThanBacktest

\* a second request; the market returns the series it returned before, or another
NextBacktest(strategy_code, symbol, date_range, initial_capital, history) ==
    /\ Len(backtests) = 1
    /\ RunBacktest(strategy_code, symbol, date_range, initial_capital, history)
    /\ UNCHANGED otherThanBacktest

BacktestIdle == backtests = <<>>

\* inputs: 20 bars at one price, then up to MaxTail bars that move
TailPrices == {8, 10, 11}
\* and two longer series on which the averages cross twice
CrossingTails == {<<10, 11, 8, 11, 11, 8, 10>>, <<10, 11, 8, 11, 11, 11, 10>>}
PriceSeries ==
    { [i \in 1..20 |-> 10] \o tail :
        tail \in UNION {[1..k -> TailPrices] : k \in 0..MaxTail} \cup CrossingTails }
StrategyCodes == {"", "strategy(\"EMA cross\")"}
Symbols == {"SPY", "AAPL"}
DateRanges == {<<2023, 2024>>, <<2024, 2025>>}
Capitals == {500, 10000}
\* series the market may return to a second request in place of the first one
OtherSeries == {[i \in 1..20 |-> 10] \o <<10, 11, 8, 8>>}

\* what ticker.history may do for a second request: what it did for the first,
\* or return another series
HistoriesAgain ==
    IF backtests = <<>> THEN {}
    ELSE {backtests[1].history} \cup {<<p>> : p \in OtherSeries}

\* ------------------------------------------------------ properties: backtest

\* C8: two run_backtest calls that differ only in the strategy source, with the
\* same symbol, date range and initial capital and the same price series returned
\* by the market-data source, return identical reports: trades, equity curve and
\* every metric.
C8_StrategyIgnored ==
    \A i, j \in 1..Len(backtests) :
        (/\ backtests[i].symbol = backtests[j].symbol
         /\ backtests[i].date_range = backtests[j].date_range
         /\ backtests[i].initial_capital = backtests[j].initial_capital
         /\ backtests[i].history # None
         /\ backtests[i].history = backtests[j].history)
        => backtests[i].response = backtests[j].response

\* C8 witness: two requests with different strategy sources and otherwise the
\* same, over a series that makes a trade, were answered with the same report
C8_Witness ==
    /\ Len(backtests) = 2
    /\ backtests[1].strategy_code # backtests[2].strategy_code
    /\ backtests[1].symbol = backtests[2].symbol
    /\ backtests[1].date_range = backtests[2].date_range
    /\ backtests[1].initial_capital = backtests[2].initial_capital
    /\ backtests[1].history # None
    /\ backtests[1].history = backtests[2].history
    /\ backtests[1].response.status = 200
    /\ backtests[1].response.body[1].total_trades >= 1
    /\ backtests[1].response = backtests[2].response

\* the fast average crosses from at-or-below to strictly above the slow one on bar i
CrossesAbove(data, i) == FastAbove(data, i) /\ ~FastAbove(data, i - 1)

\* the bars the loop scans: index 21 to the second-to-last bar
ScannedBars(data) == SlowWindow..(Len(data) - 2)

\* C27: scanning bars from index 21 to the second-to-last bar, a position is
\* opened only while flat and only on a bar where the fast average is strictly
\* above the slow average and was at or below it on the previous bar, and is
\* closed only while long and only on a bar where the fast average is strictly
\* below the slow average; hence at most one position is open at any time, every
\* recorded trade's exit bar is strictly later than its entry bar, recorded
\* trades do not overlap and appear in chronological order, and a position still
\* open after the last scanned bar produces no trade.
C27_TradeScan ==
    \A r \in 1..Len(backtests) :
        backtests[r].response.status = 200 =>
            LET data == backtests[r].history[1]
                trades == backtests[r].response.body[1].trades
                n == Len(trades)
                scanned == ScannedBars(data)
                \* the bars on which the scan is flat: before the first entry,
                \* and after an exit up to the next entry
                flatFrom(k) == IF k = 0 THEN SlowWindow ELSE trades[k].exit_time + 1
            IN  /\ \A k \in 1..n :
                      /\ trades[k].entry_time \in scanned
                      /\ trades[k].exit_time \in scanned
                      /\ trades[k].entry_time < trades[k].exit_time
                      /\ CrossesAbove(data, trades[k].entry_time)
                      /\ FastBelow(data, trades[k].exit_time)
                      \* flat until the entry, long until the exit
                      /\ \A i \in flatFrom(k - 1)..(trades[k].entry_time - 1) :
                             ~CrossesAbove(data, i)
                      /\ \A i \in (trades[k].entry_time + 1)..(trades[k].exit_time - 1) :
                             ~FastBelow(data, i)
                /\ \A k \in 1..(n - 1) : trades[k].exit_time < trades[k + 1].entry_time
                \* after the last exit: flat to the end, or a position opened
                \* and never closed, which is no trade
                /\ \/ \A i \in scanned : i >= flatFrom(n) => ~CrossesAbove(data, i)
                   \/ \E e \in scanned :
                          /\ e >= flatFrom(n)
                          /\ CrossesAbove(data, e)
                          /\ \A i \in flatFrom(n)..(e - 1) : ~CrossesAbove(data, i)
                          /\ \A i \in scanned : i > e => ~FastBelow(data, i)

\* a report with two trades, the second entered after the first was closed
C27_Witness ==
    \E r \in 1..Len(backtests) :
        /\ backtests[r].response.status = 200
        /\ LET data == backtests[r].history[1]
               trades == backtests[r].response.body[1].trades
           IN  /\ Len(trades) = 2
               /\ trades[1].entry_time < trades[1].exit_time
               /\ trades[1].exit_time < trades[2].entry_time
               /\ trades[2].entry_time < trades[2].exit_time

\* a report without a trade for a series on which a position was opened on a
\* scanned bar and was still open after the last one
C27_OpenAtEnd ==
    \E r \in 1..Len(backtests) :
        /\ backtests[r].response.status = 200
        /\ LET data == backtests[r].history[1]
           IN  /\ backtests[r].response.body[1].trades = <<>>
               /\ \E e \in ScannedBars(data) :
                      /\ CrossesAbove(data, e)
                      /\ FastAbove(data, Len(data) - 2)
                      /\ FastBelow(data, Len(data) - 1)

\* ------------------------------------------------------- MonteCarloService

\* MonteCarloConfig.n_simulations: the resamplings behind each probability
NSimulations == 10000

\* what _generate_summary reads of the analyses: the bootstrap resamplings with a
\* positive expectancy, whether the random-entry p-value is below 0.05, and the
\* shuffles that fell below the ruin threshold
AnalysisResults(positive_count, is_significant, ruin_count) ==
    [bootstrap |-> [expectancy |-> [probability_positive |-> Rat(positive_count, NSimulations)]],
     random_entry |-> [is_significant |-> is_significant],
     risk_of_ruin |-> [ruin_probability |-> Rat(ruin_count, NSimulations)]]

\* an edge score whose ruin tiers include their limits
EdgeScoreRuinInclusive(analyses) ==
    LET probability_positive == analyses.bootstrap.expectancy.probability_positive
        ruin_probability == analyses.risk_of_ruin.ruin_probability
    IN  (IF RatGt(probability_positive, Rat(95, 100)) THEN 3
         ELSE IF RatGt(probability_positive, Rat(80, 100)) THEN 2
         ELSE IF RatGt(probability_positive, Rat(65, 100)) THEN 1
         ELSE 0)
        + (IF analyses.random_entry.is_significant THEN 2 ELSE 0)
        + (IF ~RatGt(ruin_probability, Rat(5, 100)) THEN 2
           ELSE IF ~RatGt(ruin_probability, Rat(10, 100)) THEN 1
           ELSE 0)

\* _generate_summary: edge_score
EdgeScore(analyses) ==
    LET probability_positive == analyses.bootstrap.expectancy.probability_positive
        ruin_probability == analyses.risk_of_ruin.ruin_probability
    IN  (IF RatGt(probability_positive, Rat(95, 100)) THEN 3
         ELSE IF RatGt(probability_positive, Rat(80, 100)) THEN 2
         ELSE IF RatGt(probability_positive, Rat(65, 100)) THEN 1
         ELSE 0)
        + (IF analyses.random_entry.is_significant THEN 2 ELSE 0)
        + (IF RatGt(Rat(5, 100), ruin_probability) THEN 2
           ELSE IF RatGt(Rat(10, 100), ruin_probability) THEN 1
           ELSE 0)

\* _generate_summary
GenerateSummary(analyses) ==
    LET edge_score == EdgeScore(analyses)
        verdict == IF edge_score >= 6 THEN <<"STRONG EDGE", "green">>
                   ELSE IF edge_score >= 4 THEN <<"MODERATE EDGE", "yellow">>
                   ELSE IF edge_score >= 2 THEN <<"WEAK EDGE", "orange">>
                   ELSE <<"NO EDGE DETECTED", "red">>
    IN  [verdict |-> verdict[1],
         verdict_color |-> verdict[2],
         edge_score |-> edge_score,
         key_metrics |->
             [probability_positive_expectancy |->
                  analyses.bootstrap.expectancy.probability_positive,
              risk_of_ruin |-> analyses.risk_of_ruin.ruin_probability]]

NoSummary ==
    [verdict |-> "", verdict_color |-> "", edge_score |-> 0,
     key_metrics |-> [probability_positive_expectancy |-> RatZero, risk_of_ruin |-> RatZero]]

\* the six analyses of run_full_analysis
Analyses == {"shuffle_trades", "bootstrap", "random_entry", "drawdown_distribution",
             "risk_of_ruin", "expectancy_ci"}

\* (for _ in range(self.config.n_simulations)) in each analysis; the config of
\* MonteCarloService() is MonteCarloConfig()
AnalysisTrials == [a \in Analyses |-> NSimulations]

NoAnalysisTrials == [a \in Analyses |-> 0]

\* run_full_analysis: the analyses resample at random, so what they find is an
\* input; the summary is computed from them before the call returns
RunFullAnalysis(positive_count, is_significant, ruin_count) ==
    /\ mcPc = "idle"
    /\ mc_results' = AnalysisResults(positive_count, is_significant, ruin_count)
    /\ mc_trials' = AnalysisTrials
    /\ mc_summary' = GenerateSummary(mc_results')
    /\ mcPc' = "done"
    /\ UNCHANGED otherThanMonteCarlo

\* MonteCarloService().run_full_analysis called directly
AnalyzeDirectly(positive_count, is_significant, ruin_count) ==
    /\ UNCHANGED mc_request
    /\ RunFullAnalysis(positive_count, is_significant, ruin_count)

\* n_simulations: int = Field(default=10000)
DefaultSimulations == 10000

\* MonteCarloRequest.n_simulations, for a body with the field (a one-element
\* tuple) or without it (None)
RequestSimulations(field) == IF field = None THEN DefaultSimulations ELSE field[1]

\* POST /monte-carlo/analyze: run_monte_carlo hands the trades and their equity
\* curve to the module's mc_service
RunMonteCarlo(field, positive_count, is_significant, ruin_count) ==
    /\ mc_request' = <<RequestSimulations(field)>>
    /\ RunFullAnalysis(positive_count, is_significant, ruin_count)

MonteCarloIdle ==
    /\ mcPc = "idle"
    /\ mc_results = AnalysisResults(0, FALSE, 0)
    /\ mc_summary = NoSummary
    /\ mc_request = None
    /\ mc_trials = NoAnalysisTrials

\* the n_simulations fields of request bodies: none, the test's 200, 10000, 50000
SimulationFields == {None, <<200>>, <<10000>>, <<50000>>}

\* counts on and next to the limits of the score's tiers
PositiveCounts == {0, 5000, 6500, 6501, 8000, 8001, 9500, 9501, NSimulations}
RuinCounts == {0, 499, 500, 501, 999, 1000, 1001, NSimulations}

\* ------------------------------------------- properties: MonteCarloService

\* the score as the sum of its three stated parts, from the analyses
StatedEdgeScore ==
    LET p == mc_results.bootstrap.expectancy.probability_positive
        r == mc_results.risk_of_ruin.ruin_probability
    IN  (IF 100 * p[1] > 95 * p[2] THEN 3
         ELSE IF 100 * p[1] > 80 * p[2] THEN 2
         ELSE IF 100 * p[1] > 65 * p[2] THEN 1 ELSE 0)
        + (IF mc_results.random_entry.is_significant THEN 2 ELSE 0)
        + (IF 100 * r[1] < 5 * r[2] THEN 2
           ELSE IF 100 * r[1] < 10 * r[2] THEN 1 ELSE 0)

\* C12: the summary's edge_score is an integer in [0,7], the sum of 3/2/1/0 for a
\* bootstrap probability_positive above 0.95/0.80/0.65/none, 2 for a significant
\* random-entry comparison and 2/1/0 for a ruin probability below 0.05/below
\* 0.10/neither; the verdict is STRONG EDGE (green) iff the score is >= 6,
\* MODERATE EDGE (yellow) iff 4 or 5, WEAK EDGE (orange) iff 2 or 3, NO EDGE
\* DETECTED (red) iff <= 1.
C12_EdgeScore ==
    mcPc = "done" =>
        LET score == mc_summary.edge_score
            said == <<mc_summary.verdict, mc_summary.verdict_color>>
        IN  /\ score \in 0..7
            /\ score = StatedEdgeScore
            /\ said \in {<<"STRONG EDGE", "green">>, <<"MODERATE EDGE", "yellow">>,
                         <<"WEAK EDGE", "orange">>, <<"NO EDGE DETECTED", "red">>}
            /\ said = <<"STRONG EDGE", "green">> <=> score >= 6
            /\ said = <<"MODERATE EDGE", "yellow">> <=> score \in {4, 5}
            /\ said = <<"WEAK EDGE", "orange">> <=> score \in {2, 3}
            /\ said = <<"NO EDGE DETECTED", "red">> <=> score <= 1

\* C12 witness: a summary for a ruin probability of exactly 0.05 and a
\* probability_positive of exactly 0.95, scored 2 + 2 + 1 and MODERATE EDGE
C12_Witness ==
    /\ mcPc = "done"
    /\ RatEq(mc_results.risk_of_ruin.ruin_probability, Rat(5, 100))
    /\ RatEq(mc_results.bootstrap.expectancy.probability_positive, Rat(95, 100))
    /\ mc_results.random_entry.is_significant
    /\ mc_summary.edge_score = 5
    /\ mc_summary.verdict = "MODERATE EDGE"

\* a request has been answered
MonteCarloAnswered == mcPc = "done" /\ mc_request # None

\* C28: POST /monte-carlo/analyze runs each of its six analyses with exactly the
\* number of trials given in the request's n_simulations field (10,000 when the
\* field is omitted), in the same way that POST /prop-firm/simulate uses its
\* request's n_simulations for its trial count.
C28_AsStated ==
    MonteCarloAnswered => \A a \in Analyses : mc_trials[a] = mc_request[1]

\* whatever the request says, each analysis makes 10,000 passes
C28_ConfiguredCount ==
    mcPc = "done" => \A a \in Analyses : mc_trials[a] = NSimulations

\* a request for 200 simulations was answered after 10,000 passes of each analysis
C28_RequestIgnored ==
    /\ MonteCarloAnswered
    /\ mc_request = <<200>>
    /\ \A a \in Analyses : mc_trials[a] = 10000

\* --------------------------------------- EdgeDiscoveryService.analyze_feature

\* _run_statistical_tests, by the number of clean observations and what the tests
\* on them found; error is the optional "error" key
RunStatisticalTests(n_clean, ic_mean, ic_std, p_value) ==
    IF n_clean < 30
    THEN [error |-> <<"Insufficient data for statistical analysis">>,
          ic_mean |-> RatZero, ic_std |-> RatZero, ic_ir |-> RatZero,
          p_value |-> RatOne, is_significant |-> FALSE]
    ELSE [error |-> None,
          ic_mean |-> ic_mean, ic_std |-> ic_std,
          ic_ir |-> IF RatGt(ic_std, RatZero) THEN NDiv(ic_mean, ic_std) ELSE RatZero,
          p_value |-> p_value,
          is_significant |-> RatGt(Rat(5, 100), p_value)]

\* _run_ml_analysis, by the number of clean rows and the mean cross-validation score
RunMlAnalysis(n_rows, cv_accuracy) ==
    IF n_rows < 100
    THEN [cv_accuracy |-> Rat(1, 2), has_predictive_power |-> FALSE]
    ELSE [cv_accuracy |-> cv_accuracy,
          has_predictive_power |-> RatGt(cv_accuracy, Rat(52, 100))]

\* the score of _generate_recommendation
RecommendationScore(stats, ml) ==
    (IF stats.is_significant THEN 2 ELSE 0)
    + (IF RatGt(stats.ic_ir, Rat(1, 2)) THEN 2 ELSE 0)
    + (IF ml.has_predictive_power THEN 2 ELSE 0)

\* a recommendation that scores an insufficient-data result like any other
EdgeRecommendationWithoutShortCircuit(stats, ml) ==
    LET score == RecommendationScore(stats, ml)
    IN  IF score >= 5
        THEN <<"STRONG EDGE",
               "Strategy shows statistically significant edge with high predictive power">>
        ELSE IF score >= 3
        THEN <<"MODERATE EDGE", "Strategy shows promise but needs further validation">>
        ELSE IF score >= 1
        THEN <<"WEAK EDGE", "Limited evidence of edge. Consider refinement">>
        ELSE <<"NO EDGE DETECTED", "Strategy does not show statistical edge">>

\* EdgeDiscoveryService._generate_recommendation
EdgeRecommendation(stats, ml) ==
    LET score == RecommendationScore(stats, ml)
    IN  IF stats.error # None
        THEN <<"INSUFFICIENT DATA", "Unable to perform statistical analysis">>
        ELSE IF score >= 5
        THEN <<"STRONG EDGE",
               "Strategy shows statistically significant edge with high predictive power">>
        ELSE IF score >= 3
        THEN <<"MODERATE EDGE", "Strategy shows promise but needs further validation">>
        ELSE IF score >= 1
        THEN <<"WEAK EDGE", "Limited evidence of edge. Consider refinement">>
        ELSE <<"NO EDGE DETECTED", "Strategy does not show statistical edge">>

NoStats == RunStatisticalTests(0, RatZero, RatZero, RatOne)
NoMl == RunMlAnalysis(0, RatZero)

\* analyze_feature, steps 4 to 6 and the report: the feature and the prices are
\* data, so the clean lengths and what the tests measure on them are inputs
AnalyzeFeature(n_clean, ic_mean, ic_std, p_value, n_rows, cv_accuracy) ==
    /\ analyzePc = "idle"
    /\ stats_results' = RunStatisticalTests(n_clean, ic_mean, ic_std, p_value)
    /\ ml_results' = RunMlAnalysis(n_rows, cv_accuracy)
    /\ recommendation' = EdgeRecommendation(stats_results', ml_results')
    /\ analyzePc' = "done"
    /\ UNCHANGED otherThanAnalyze

AnalyzeIdle ==
    /\ analyzePc = "idle"
    /\ stats_results = NoStats
    /\ ml_results = NoMl
    /\ recommendation = <<"", "">>

\* clean lengths on both sides of the two thresholds, and measurements on both
\* sides of the three criteria
CleanLengths == {0, 29, 30, 99, 100}
IcMeans == {Rat(-1, 10), Rat(1, 10), Rat(3, 10)}
IcStds == {RatZero, Rat(2, 10), Rat(5, 10)}
PValues == {Rat(1, 100), Rat(5, 100), Rat(1, 2)}
CvAccuracies == {Rat(48, 100), Rat(52, 100), Rat(53, 100), Rat(60, 100)}

\* -------------------------------------- properties: analyze_feature

\* how many of the three criteria hold, from the two results
CriteriaMet ==
    (IF stats_results.is_significant THEN 1 ELSE 0)
    + (IF 2 * stats_results.ic_ir[1] > stats_results.ic_ir[2] THEN 1 ELSE 0)
    + (IF ml_results.has_predictive_power THEN 1 ELSE 0)

\* C13: the recommendation is INSUFFICIENT DATA whenever the statistical result
\* is the insufficient-data result, whatever the ML result; otherwise, with +2 for
\* each of statistically significant, information ratio > 0.5 and classifier
\* predictive power, it is STRONG EDGE iff all three hold, MODERATE EDGE iff
\* exactly two, WEAK EDGE iff exactly one, NO EDGE DETECTED iff none.
C13_EdgeRecommendation ==
    analyzePc = "done" =>
        IF stats_results.error # None
        THEN recommendation[1] = "INSUFFICIENT DATA"
        ELSE /\ recommendation[1] = "STRONG EDGE" <=> CriteriaMet = 3
             /\ recommendation[1] = "MODERATE EDGE" <=> CriteriaMet = 2
             /\ recommendation[1] = "WEAK EDGE" <=> CriteriaMet = 1
             /\ recommendation[1] = "NO EDGE DETECTED" <=> CriteriaMet = 0

\* C13 witness: an insufficient-data statistical result beside an ML result with
\* predictive power, recommended as INSUFFICIENT DATA
C13_Witness ==
    /\ analyzePc = "done"
    /\ stats_results.error # None
    /\ ml_results.has_predictive_power
    /\ recommendation[1] = "INSUFFICIENT DATA"

\* -------------------------------------------------------- RegressionService

\* most trades in a request
MaxTrades == 8

\* the regression's columns: the intercept and the four synthetic features
Coefficients == 5

\* fewest samples scipy's normaltest (its skewtest) accepts
NormalTestSamples == 8

\* _empty_result
EmptyResult ==
    [r_squared |-> RatZero, adjusted_r_squared |-> "0.0", factors |-> <<>>,
     finite |-> TRUE]

\* the factor entries of a fit: one per synthetic feature, its p_value from
\* stats.t.cdf with n - 5 degrees of freedom, not a number unless that is positive
Factors(n) ==
    [i \in 1..4 |->
        [name |-> <<"volatility", "trend_strength", "volume_ratio", "rsi_level">>[i],
         p_value |-> IF n - Coefficients > 0 THEN "number" ELSE "nan"]]

\* (returns - mean(returns)) ** 2 summed is positive: the returns are not all equal
SsTotPositive(returns) == \E i, j \in 1..Len(returns) : returns[i] # returns[j]

\* RegressionService.analyze. fit is what the fit on the random synthetic
\* features measures; normaltest_raises is whether the installed scipy raises
\* ValueError for fewer than 8 samples or answers nan with a warning
Analyze(trade_list, fit, normaltest_raises) ==
    LET n == Len(trade_list)
        returns == [i \in 1..n |-> trade_list[i].return_pct]
    IN  IF n = 0
        THEN [kind |-> "return", value |-> EmptyResult, error |-> ""]
        \* np.linalg.lstsq raises on an array that is not numeric: bare except
        ELSE IF \E i \in 1..n : ~trade_list[i].numeric
        THEN [kind |-> "return", value |-> EmptyResult, error |-> ""]
        \* r_squared is the int 0 and n - X.shape[1] - 1 the int 0
        ELSE IF n - Coefficients - 1 = 0 /\ ~SsTotPositive(returns)
        THEN [kind |-> "raise", value |-> EmptyResult, error |-> "ZeroDivisionError"]
        ELSE IF n < NormalTestSamples /\ normaltest_raises
        THEN [kind |-> "raise", value |-> EmptyResult, error |-> "ValueError"]
        ELSE [kind |-> "return", error |-> "",
              value |-> [r_squared |-> IF ~SsTotPositive(returns) THEN RatZero
                                       \* as many columns as rows: the fit is exact
                                       ELSE IF n <= Coefficients THEN RatOne
                                       ELSE fit.r_squared,
                         adjusted_r_squared |-> IF n - Coefficients - 1 = 0 THEN "inf"
                                                ELSE "number",
                         factors |-> Factors(n),
                         finite |-> /\ n - Coefficients > 0
                                    /\ n - Coefficients - 1 # 0
                                    /\ n >= NormalTestSamples
                                    /\ fit.finite]]

\* run_regression_analysis: 200 with the report, 500 for an exception; a report
\* holding nan or inf is answered 200 or 500 as the JSON encoder allows or not
RegressionResponse(outcome, nan_renders) ==
    IF outcome.kind = "raise"
    THEN [status_code |-> 500, factors |-> <<>>, detail |-> outcome.error]
    ELSE IF ~outcome.value.finite /\ ~nan_renders
    THEN [status_code |-> 500, factors |-> <<>>,
          detail |-> "Out of range float values are not JSON compliant"]
    ELSE [status_code |-> 200, factors |-> outcome.value.factors, detail |-> ""]

NoRegression == [kind |-> "none", value |-> EmptyResult, error |-> ""]
NoRegressionResponse == [status_code |-> 0, factors |-> <<>>, detail |-> ""]

\* POST /regression/analyze
RunRegressionAnalysis(trade_list, fit, normaltest_raises, nan_renders) ==
    /\ regressionPc = "idle"
    /\ request_trades' = trade_list
    /\ regressionOutcome' = Analyze(trade_list, fit, normaltest_raises)
    /\ regressionResponse' = RegressionResponse(regressionOutcome', nan_renders)
    /\ regressionPc' = "done"
    /\ UNCHANGED otherThanRegression

RegressionIdle ==
    /\ regressionPc = "idle"
    /\ request_trades = <<>>
    /\ regressionOutcome = NoRegression
    /\ regressionResponse = NoRegressionResponse

\* a trade's return_pct, in percent; numeric is FALSE for a value numpy cannot
\* compute with (a string)
TradeRecords ==
    {[return_pct |-> 0, numeric |-> TRUE], [return_pct |-> 1, numeric |-> TRUE],
     [return_pct |-> 0, numeric |-> FALSE]}

\* trade lists: every list of up to two trades, and longer lists of one repeated
\* trade with or without a different last trade
RECURSIVE Repeat(_, _)
Repeat(x, n) == IF n = 0 THEN <<>> ELSE <<x>> \o Repeat(x, n - 1)

TradeLists ==
    {<<>>}
    \cup {Repeat(x, n) : x \in TradeRecords, n \in 1..MaxTrades}
    \cup {Repeat(x, n - 1) \o <<y>> : x \in TradeRecords, y \in TradeRecords, n \in 2..MaxTrades}

Fits == [r_squared : {Rat(1, 2), RatOne}, finite : BOOLEAN]

\* ------------------------------------------ properties: RegressionService

\* C14: analyze returns the zeroed/empty result (R-squared 0, empty factor list,
\* no exception) for an empty trade list and whenever there are fewer trades
\* than the 5 coefficients (a single trade for one), and POST /regression/analyze
\* answers 200 with an empty factor list in both cases.
C14_AsStated ==
    (regressionPc = "done" /\ Len(request_trades) < Coefficients) =>
        /\ regressionOutcome.kind = "return"
        /\ regressionOutcome.value.r_squared = RatZero
        /\ regressionOutcome.value.factors = <<>>
        /\ regressionResponse.status_code = 200
        /\ regressionResponse.factors = <<>>

\* the empty trade list is answered with the empty result and 200
C14_EmptyTrades ==
    (regressionPc = "done" /\ request_trades = <<>>) =>
        /\ regressionOutcome = [kind |-> "return", value |-> EmptyResult, error |-> ""]
        /\ regressionResponse.status_code = 200
        /\ regressionResponse.factors = <<>>

\* a single numeric trade that analyze answers with four factors
C14_SingleTradeFactors ==
    /\ regressionPc = "done"
    /\ Len(request_trades) = 1
    /\ regressionOutcome.kind = "return"
    /\ Len(regressionOutcome.value.factors) = 4

\* ------------------------------------------------------------ PineScriptRAG

\* most constructions over one persistence directory
MaxConstructions == 3

\* PINE_DOCS: the ids of the documentation chunks
PINE_DOCS ==
    <<"version_declaration", "strategy_declaration", "indicator_declaration",
      "strategy_entries", "strategy_exits", "ta_indicators", "ta_crossovers", "ta_bands",
      "input_functions", "plotting", "var_keyword", "na_handling", "arrays",
      "conditionals", "position_info">>

\* EXAMPLE_SCRIPTS: the names of the example scripts
EXAMPLE_SCRIPTS ==
    <<"rsi_strategy", "ema_crossover_atr", "bollinger_bands_indicator", "macd_divergence",
      "volume_profile_strategy", "support_resistance_breakout">>

\* a document id: doc["id"], f"example_{name}" or f"user_example_{name}"
DocId(prefix, name) == [prefix |-> prefix, name |-> name]

\* Text is a sequence of paragraphs; BlankLine stands for the "\n\n" between two.
BlankLine == "BLANK LINE"

\* f"{description}\n\n{code}"
Content(description, code) == description \o <<BlankLine>> \o code

\* EXAMPLE_SCRIPTS[name]["description"], EXAMPLE_SCRIPTS[name]["code"]
ExampleDescription(name) == <<"description", name>>
ExampleSource(name) == <<"code", name>>

\* what _seed_collection adds: each chunk under its id with its content, each
\* example under example_<name> with its description and code
SeedDocuments ==
    [id \in {DocId("", PINE_DOCS[i]) : i \in 1..Len(PINE_DOCS)}
           \cup {DocId("example_", EXAMPLE_SCRIPTS[i]) : i \in 1..Len(EXAMPLE_SCRIPTS)} |->
        IF id.prefix = ""
        THEN [document |-> <<"content", id.name>>, category |-> "documentation", name |-> ""]
        ELSE [document |-> Content(ExampleDescription(id.name), ExampleSource(id.name)),
              category |-> "example", name |-> id.name]]

\* collection.add / collection.update of one document
Put(documents, id, entry) ==
    [k \in DOMAIN documents \cup {id} |-> IF k = id THEN entry ELSE documents[k]]

\* a seeding that replaces whatever the collection holds by the seed set
SeedCollectionAfresh(documents) == SeedDocuments

\* _seed_collection
SeedCollection(documents) ==
    IF Cardinality(DOMAIN documents) = 0
    THEN Merge(documents, SeedDocuments)
    ELSE documents

\* PineScriptRAG.__init__: the persistent client opens the directory, the
\* collection is fetched or created, and seeded if empty
Construct ==
    /\ constructions < MaxConstructions
    /\ collection' = SeedCollection(collection)
    /\ constructions' = constructions + 1
    /\ live' = TRUE
    /\ UNCHANGED <<added, example_code>>
    /\ UNCHANGED otherThanStore

\* add_example: the document user_example_<name> is updated if it exists, added if
\* not; metadata given by the caller overrides the category
AddExample(name, description, code, metadata) ==
    /\ live
    /\ collection' =
           Put(collection, DocId("user_example_", name),
               [document |-> Content(description, code),
                category |-> IF metadata # None THEN metadata[1] ELSE "user_example",
                name     |-> name])
    /\ added' = Put(added, name, [description |-> description, code |-> code])
    /\ example_code' = None
    /\ UNCHANGED <<constructions, live>>
    /\ UNCHANGED otherThanStore

\* doc.split("\n\n", 1)[1] if "\n\n" in doc, else doc
AfterFirstBlankLine(doc) ==
    IF \E i \in 1..Len(doc) : doc[i] = BlankLine
    THEN LET first == CHOOSE i \in 1..Len(doc) :
                          /\ doc[i] = BlankLine
                          /\ \A j \in 1..(i - 1) : doc[j] # BlankLine
         IN  SubSeq(doc, first + 1, Len(doc))
    ELSE doc

\* what get_example_code returns when results["documents"][0] is the document
\* under found; no document found gives ""
ExampleCodeOf(documents, name, found) ==
    IF \E i \in 1..Len(EXAMPLE_SCRIPTS) : EXAMPLE_SCRIPTS[i] = name
    THEN ExampleSource(name)
    ELSE IF found # None
         THEN AfterFirstBlankLine(documents[found[1]].document)
         ELSE <<>>

\* get_example_code: a built-in name answers from EXAMPLE_SCRIPTS; any other name
\* is fetched under example_<name> and user_example_<name>, and the first
\* document the collection returns is split
GetExampleCode(name) ==
    /\ live
    /\ LET ids == {DocId("example_", name), DocId("user_example_", name)} \cap DOMAIN collection
       IN  \E found \in IF ids = {} THEN {None} ELSE {<<id>> : id \in ids} :
               example_code' = [name |-> name, code |-> ExampleCodeOf(collection, name, found)]
    /\ UNCHANGED <<collection, constructions, live, added>>
    /\ UNCHANGED otherThanStore

\* the process ends; the directory stays
Restart ==
    /\ live
    /\ live' = FALSE
    /\ UNCHANGED <<collection, constructions, added, example_code>>
    /\ UNCHANGED otherThanStore

\* a directory no store was ever constructed over
StoreNew ==
    /\ collection = <<>>
    /\ constructions = 0
    /\ live = FALSE
    /\ added = <<>>
    /\ example_code = None

ExampleNames == {"mine", "rsi_strategy"}
ExampleDescriptions == {<<"a script">>, <<"what it does", BlankLine, "how to use it">>}
ExampleCodes == {<<"plot(close)">>, <<"//@version=5", BlankLine, "plot(close)">>}
ExampleMetadata == {None, <<"example">>}

\* ----------------------------------------------- properties: PineScriptRAG

SeedsPresent(documents) ==
    \A id \in DOMAIN SeedDocuments :
        id \in DOMAIN documents /\ documents[id] = SeedDocuments[id]

BuiltIn(name) == \E i \in 1..Len(EXAMPLE_SCRIPTS) : EXAMPLE_SCRIPTS[i] = name

\* the document add_example(name, ...) leaves behind is the only one under
\* user_example_<name>, and it is the description and the code joined by a blank line
StoredOnce(name) ==
    /\ Cardinality({id \in DOMAIN collection :
                        id.prefix = "user_example_" /\ id.name = name}) = 1
    /\ collection[DocId("user_example_", name)].document
           = added[name].description \o <<BlankLine>> \o added[name].code

HasBlankLine(text) == \E i \in 1..Len(text) : text[i] = BlankLine

\* C30: for a name that is not one of the 6 built-in example names and for any
\* description and code, after add_example(name, description, code), inserting or
\* updating, the store holds exactly one document user_example_<name> and
\* get_example_code(name) returns exactly that code; for a built-in name
\* get_example_code returns the built-in source whatever user example was added
\* under that name.
C30_AsStated ==
    /\ Len(EXAMPLE_SCRIPTS) = 6
    /\ \A name \in DOMAIN added : StoredOnce(name)
    /\ (example_code # None /\ example_code.name \in DOMAIN added)
           => IF BuiltIn(example_code.name)
              THEN example_code.code = <<"code", example_code.name>>
              ELSE example_code.code = added[example_code.name].code

\* what holds of add_example and get_example_code: the document is stored once,
\* a built-in name answers with the built-in source, and any other name answers
\* with the added code when the description holds no blank line, and otherwise
\* with everything after the description's first blank line
C30_RoundTrip ==
    /\ Len(EXAMPLE_SCRIPTS) = 6
    /\ \A name \in DOMAIN added : StoredOnce(name)
    /\ (example_code # None /\ example_code.name \in DOMAIN added)
           => LET given == added[example_code.name]
              IN  IF BuiltIn(example_code.name)
                  THEN example_code.code = <<"code", example_code.name>>
                  ELSE IF ~HasBlankLine(given.description)
                  THEN example_code.code = given.code
                  ELSE /\ example_code.code # given.code
                       /\ \E k \in 1..Len(given.description) :
                              /\ given.description[k] = BlankLine
                              /\ ~HasBlankLine(SubSeq(given.description, 1, k - 1))
                              /\ example_code.code
                                     = SubSeq(given.description, k + 1,
                                              Len(given.description))
                                       \o <<BlankLine>> \o given.code
    /\ (example_code # None /\ example_code.name \notin DOMAIN added
           /\ ~BuiltIn(example_code.name))
           => example_code.code = <<>>

\* a user example whose description has two paragraphs was added under a name
\* that is not built in, and get_example_code gave back the second paragraph
\* of the description in front of the code
C30_DescriptionReturned ==
    /\ example_code # None
    /\ example_code.name = "mine"
    /\ "mine" \in DOMAIN added
    /\ added["mine"].description = <<"what it does", BlankLine, "how to use it">>
    /\ added["mine"].code = <<"plot(close)">>
    /\ example_code.code = <<"how to use it", BlankLine, "plot(close)">>

\* the round trip was exact: an update of an existing user example whose new
\* description is one paragraph, read back with its two-paragraph code
C30_ExactReturn ==
    /\ example_code # None
    /\ example_code.name = "mine"
    /\ "mine" \in DOMAIN added
    /\ added["mine"].description = <<"a script">>
    /\ example_code.code = <<"//@version=5", BlankLine, "plot(close)">>

\* a user example was added under a built-in name and get_example_code answered
\* with the built-in source
C30_BuiltInReturned ==
    /\ example_code # None
    /\ example_code.name = "rsi_strategy"
    /\ "rsi_strategy" \in DOMAIN added
    /\ DocId("user_example_", "rsi_strategy") \in DOMAIN collection
    /\ example_code.code = <<"code", "rsi_strategy">>

\* ------------------------------------- PropFirmSimulator._simulate_phase: a trial
\* One trial of the simulation loop, followed day by day: a step is one pass of
\* (for daily_return in shuffled_returns), made by TrialDay.

\* np.random.permutation and the trial's locals before the first day
StartTrial(returns, rule_record, profit_target, arrangement) ==
    /\ walkPc = "idle"
    /\ arrangement \in Arrangements(returns)
    /\ walkArgs' = PhaseArgs(returns, rule_record, profit_target)
    /\ walkReturns' = arrangement
    /\ walk' = TrialStart(walkArgs')
    /\ walkPc' = "walking"
    /\ UNCHANGED walkTally
    /\ UNCHANGED otherThanTrial

\* one pass of the loop over shuffled_returns
TrialStep ==
    /\ walkPc = "walking"
    /\ ~walk.phase_passed
    /\ walk.fail_reason = "None"
    /\ walk.day < Len(walkReturns)
    /\ walk' = TrialDay(walk, walkReturns[walk.day + 1], walkArgs)
    /\ UNCHANGED <<walkPc, walkArgs, walkReturns, walkTally>>
    /\ UNCHANGED otherThanTrial

\* after a break or the last element: the if/elif chain that counts the trial
TrialEnd ==
    /\ walkPc = "walking"
    /\ walk.phase_passed \/ walk.fail_reason # "None" \/ walk.day >= Len(walkReturns)
    /\ walkTally' = Tally(NoTally, walk)
    /\ walkPc' = "ended"
    /\ UNCHANGED <<walkArgs, walkReturns, walk>>
    /\ UNCHANGED otherThanTrial

TrialIdle ==
    /\ walkPc = "idle"
    /\ walkArgs = None
    /\ walkReturns = <<>>
    /\ walk = NoTrial
    /\ walkTally = NoTally

\* inputs: the configured rule records, the custom ones, and custom records
\* with a consistency fraction of 50 %, of 100 % and of 0.0
ConsistencyFractions == {50, 100, 0}
WalkRuleRecords ==
    {PROP_FIRM_CONFIGS[f] : f \in DOMAIN PROP_FIRM_CONFIGS}
    \cup CustomRuleRecords
    \cup {PropFirmRules("Custom", 100, 4, 0, 5, 10, 1, 80, FALSE, <<c>>) :
            c \in ConsistencyFractions}
\* the targets simulate_challenge calls _simulate_phase with
PhaseTargets(rule_record) ==
    {rule_record.profit_target_phase1}
    \cup (IF RunsPhase2(rule_record) THEN {rule_record.profit_target_phase2} ELSE {})

\* ------------------------------------------------- properties: phase trial
\* The trial is described from its arguments and the shuffled array alone.

\* equity 1.0, and a percentage of it
WalkOne == Scale(Len(walkArgs.daily_returns))
OfOne(percent) == percent * (WalkOne \div 100)

\* the product of (1 + return) over the first k days
RECURSIVE EquityAfter(_)
EquityAfter(k) ==
    IF k = 0 THEN WalkOne
    ELSE EquityAfter(k - 1) + (EquityAfter(k - 1) \div 100) * walkReturns[k]

\* the profit of day k, and the profits of the first k days
DayProfit(k) == (EquityAfter(k - 1) \div 100) * walkReturns[k]
DayProfits(k) == [j \in 1..k |-> DayProfit(j)]

\* the highest equity of the days 0..k
PeakAfter(k) ==
    CHOOSE e \in {EquityAfter(j) : j \in 0..k} : \A j \in 0..k : EquityAfter(j) <= e

DailyFailure(k) ==
    walkArgs.max_daily_dd > 0 /\ walkReturns[k] < -walkArgs.max_daily_dd

TotalFailure(k) ==
    IF walkArgs.trailing_dd
    THEN EquityAfter(k) < PeakAfter(k) - OfOne(walkArgs.max_total_dd)
    ELSE EquityAfter(k) < WalkOne - OfOne(walkArgs.max_total_dd)

\* a fraction is configured: the argument is neither None nor 0.0
FractionConfigured == walkArgs.consistency_rule \notin {None, <<0>>}

ConsistencyFailure(k) ==
    /\ FractionConfigured
    /\ SumSeq(DayProfits(k)) > 0
    /\ MaxSeq(DayProfits(k)) * 100 > walkArgs.consistency_rule[1] * SumSeq(DayProfits(k))

AnyFailure(k) == DailyFailure(k) \/ TotalFailure(k) \/ ConsistencyFailure(k)

PassCondition(k) ==
    k >= walkArgs.min_days /\ EquityAfter(k) >= WalkOne + OfOne(walkArgs.profit_target)

\* C21: a trial is marked passed on day d only if d >= the minimum trading days,
\* equity after compounding day d's return is >= 1 + target, and no daily
\* drawdown, total drawdown or consistency failure was triggered on any day up
\* to and including d; within a day the checks run in the order daily drawdown,
\* compounding, total drawdown, consistency, pass; the walk stops at the first
\* failure or pass; the recorded days-to-pass is d.
C21_PhasePass ==
    (walkPc # "idle" /\ walk.day >= 1) =>
        LET d == walk.day
        IN  /\ d <= Len(walkReturns)
            /\ walk.phase_passed =>
                  /\ d >= walkArgs.min_days
                  /\ walk.equity = EquityAfter(d)
                  /\ walk.equity >= WalkOne + OfOne(walkArgs.profit_target)
                  /\ \A k \in 1..d : ~AnyFailure(k)
                  /\ walk.fail_reason = "None"
            \* the order of the checks of day d
            /\ walk.fail_reason = "daily_dd" <=> DailyFailure(d)
            /\ walk.fail_reason = "total_dd" <=> (~DailyFailure(d) /\ TotalFailure(d))
            /\ walk.fail_reason = "consistency" <=>
                  (~DailyFailure(d) /\ ~TotalFailure(d) /\ ConsistencyFailure(d))
            /\ walk.phase_passed <=> (~AnyFailure(d) /\ PassCondition(d))
            \* no earlier day failed or passed
            /\ \A k \in 1..(d - 1) : ~AnyFailure(k) /\ ~PassCondition(k)
            \* the trial ends at the break, or after the last day
            /\ walkPc = "ended" =>
                  /\ (walk.phase_passed \/ walk.fail_reason # "None" \/ d = Len(walkReturns))
                  /\ walkTally.days_to_pass = IF walk.phase_passed THEN <<d>> ELSE <<>>
                  /\ walkTally.passed = IF walk.phase_passed THEN 1 ELSE 0

\* a trial passed on its third day, having been above the target, short of the
\* minimum trading days, since the first
C21_Witness ==
    /\ walkPc = "ended"
    /\ walk.phase_passed
    /\ walk.day = 3
    /\ walkArgs.min_days = 3
    /\ EquityAfter(1) >= WalkOne + OfOne(walkArgs.profit_target)
    /\ walkTally.days_to_pass = <<3>>

\* C22: with a daily drawdown limit > 0, a day whose return is strictly less
\* than minus the limit ends the trial with reason daily_dd without compounding
\* that day's return into equity; a day whose return is not worse than minus the
\* limit always compounds; with a limit of 0 no trial ends with reason daily_dd.
C22_DailyDrawdown ==
    (walkPc # "idle" /\ walk.day >= 1) =>
        LET d == walk.day
            limit == walkArgs.max_daily_dd
        IN  /\ (limit > 0 /\ walkReturns[d] < -limit) =>
                  /\ walk.fail_reason = "daily_dd"
                  /\ ~walk.phase_passed
                  /\ walk.equity = EquityAfter(d - 1)
                  /\ ~ENABLED TrialStep
            /\ (limit = 0 \/ walkReturns[d] >= -limit) =>
                  /\ walk.fail_reason # "daily_dd"
                  /\ walk.equity = EquityAfter(d)
            /\ \A k \in 1..(d - 1) : limit = 0 \/ walkReturns[k] >= -limit

\* a trial ended for daily drawdown on its second day, the first day's return,
\* equal to minus the limit, compounded and the second day's not
C22_Witness ==
    /\ walkPc = "ended"
    /\ walk.fail_reason = "daily_dd"
    /\ walk.day = 2
    /\ walkReturns[1] = -walkArgs.max_daily_dd
    /\ walk.equity = EquityAfter(1)
    /\ walk.equity < WalkOne
    /\ walkTally.failed_daily_dd = 1

\* a trial without a daily limit that lost 5 % in a day and went on
C22_NoDailyLimit ==
    /\ walkPc # "idle"
    /\ walkArgs.max_daily_dd = 0
    /\ walk.day >= 2
    /\ walkReturns[1] = -5

\* the days whose return has been compounded into equity
Compounded == IF walk.fail_reason = "daily_dd" THEN walk.day - 1 ELSE walk.day

\* C23: with the trailing flag set, after every compounded day the floor equals
\* the highest equity reached so far (starting from 1.0) minus the total
\* drawdown limit, so the floor never decreases, and the trial ends with reason
\* total_dd exactly when equity falls strictly below that floor; with the flag
\* clear, the trial ends with reason total_dd exactly when equity falls strictly
\* below 1 minus the total drawdown limit.
C23_TotalDrawdown ==
    /\ [](walkPc # "idle" =>
            LET limit == OfOne(walkArgs.max_total_dd)
                floor == IF walkArgs.trailing_dd THEN PeakAfter(Compounded) - limit
                         ELSE WalkOne - limit
            IN  /\ walkArgs.trailing_dd =>
                      /\ walk.peak_equity = PeakAfter(Compounded)
                      /\ walk.trailing_floor = walk.peak_equity - limit
                /\ walk.fail_reason = "total_dd" <=>
                      (Compounded = walk.day /\ EquityAfter(Compounded) < floor)
                /\ walk.fail_reason = "total_dd" => ~ENABLED TrialStep)
    /\ [][(walkPc = "walking" /\ walkArgs.trailing_dd) =>
              walk'.trailing_floor >= walk.trailing_floor]_vars

\* a trailing trial that rose to a new peak and then fell below the raised floor
\* while still above 1 minus the limit
C23_Witness ==
    /\ walkPc = "ended"
    /\ walkArgs.trailing_dd
    /\ walk.fail_reason = "total_dd"
    /\ walk.peak_equity > WalkOne
    /\ walk.equity < walk.trailing_floor
    /\ walk.equity >= WalkOne - OfOne(walkArgs.max_total_dd)
    /\ walkTally.failed_total_dd = 1

\* a trial without the trailing flag that ended below 1 minus the limit on its
\* second day or later
C23_FlatThreshold ==
    /\ walkPc = "ended"
    /\ ~walkArgs.trailing_dd
    /\ walk.fail_reason = "total_dd"
    /\ walk.day >= 2
    /\ walk.equity < WalkOne - OfOne(walkArgs.max_total_dd)

C24_NotAppliedOnLoss ==
    /\ walkPc # "idle"
    /\ FractionConfigured
    /\ walk.day >= 2
    /\ SumSeq(DayProfits(1)) <= 0
    /\ walk.fail_reason = "None"

\* a trial under a configured fraction that passed
C24_PassedUnderFraction ==
    /\ walkPc = "ended"
    /\ FractionConfigured
    /\ walk.phase_passed

\* ----------------------------- PropFirmSimulator._simulate_funded_account: a trial
\* The funded simulation followed day by day.  A daily_returns array is given by
\* its length and its non-zero entries, [len |-> n, at |-> {<<position, value>>}];
\* every other entry is 0.0.  Of the shuffled array only the part read so far
\* matters: a day reads any of the entries not read yet.  Equity is an integer
\* at the scale of the number of non-zero entries of the extended array; money
\* is in units of 1000 / (that scale) dollars per 100000 of account size.

\* months: int = 12, trading_days_per_month = 21
Months == 12
TradingDaysPerMonth == 21
TotalDays == Months * TradingDaysPerMonth

ValueAt(array, position) ==
    IF \E e \in array.at : e[1] = position
    THEN (CHOOSE e \in array.at : e[1] = position)[2]
    ELSE 0

\* np.tile(daily_returns, (total_days // len(daily_returns)) + 1)[:total_days]:
\* the first total_days entries of the array repeated; here its non-zero ones
ExtendedReturns(array) ==
    SelectSeq([i \in 1..TotalDays |-> ValueAt(array, ((i - 1) % array.len) + 1)],
              LAMBDA v : v # 0)

\* the integer that stands for equity 1.0 in a call
AccountOne(args) == Scale(Len(ExtendedReturns(args.daily_returns)))

\* month_pnl * rules.account_size * rules.profit_split
MonthProfit(month_pnl, rule_record) ==
    month_pnl * (rule_record.account_size \div 100000) * rule_record.profit_split

\* a trial before its first day
AccountStart(args) ==
    [equity |-> AccountOne(args), month_start_equity |-> AccountOne(args),
     monthly_pnl |-> <<>>, violated |-> FALSE, idx |-> 0, daily_return |-> 0,
     extended_returns |-> ExtendedReturns(args.daily_returns), read |-> <<>>]

\* the entries a day can read: one of the non-zero entries left, or a zero
UnreadReturns(a) ==
    {a.extended_returns[i] : i \in 1..Len(a.extended_returns)}
    \cup (IF TotalDays - a.idx > Len(a.extended_returns) THEN {0} ELSE {})

\* the unread part without one entry of the given value
ReadOne(unread, daily_return) ==
    IF daily_return = 0 THEN unread
    ELSE LET i == CHOOSE j \in 1..Len(unread) : unread[j] = daily_return
         IN  SubSeq(unread, 1, i - 1) \o SubSeq(unread, i + 1, Len(unread))

\* the highest equity of a trial so far
RECURSIVE PeakOver(_, _, _)
PeakOver(events, equity, peak) ==
    IF events = <<>> THEN peak
    ELSE LET next == equity + (equity \div 100) * Head(events)
         IN  PeakOver(Tail(events), next, IF next > peak THEN next ELSE peak)

\* a day that also adds the profit of the month cut short by a violation
AccountDayKeepingPartialMonth(a, daily_return, args) ==
    LET one == AccountOne(args)
        day == a.idx % TradingDaysPerMonth
        month_start_equity == IF day = 0 THEN a.equity ELSE a.month_start_equity
        daily_violation == /\ args.rules.max_daily_drawdown > 0
                           /\ daily_return < -args.rules.max_daily_drawdown
        equity == IF daily_violation THEN a.equity
                  ELSE a.equity + (a.equity \div 100) * daily_return
        violated == \/ daily_violation
                    \/ equity < one - args.rules.max_total_drawdown * (one \div 100)
        after == [a EXCEPT !.idx = @ + 1, !.daily_return = daily_return,
                           !.extended_returns = ReadOne(@, daily_return),
                           !.read = IF daily_return = 0 THEN @ ELSE Append(@, daily_return),
                           !.month_start_equity = month_start_equity,
                           !.equity = equity, !.violated = violated]
    IN  IF violated \/ day = TradingDaysPerMonth - 1
        THEN [after EXCEPT !.monthly_pnl =
                 Append(@, MonthProfit(equity - month_start_equity, args.rules))]
        ELSE after

\* a day that measures the total drawdown from the peak when the rules' trailing
\* flag is set
AccountDayTrailing(a, daily_return, args) ==
    LET one == AccountOne(args)
        day == a.idx % TradingDaysPerMonth
        month_start_equity == IF day = 0 THEN a.equity ELSE a.month_start_equity
        daily_violation == /\ args.rules.max_daily_drawdown > 0
                           /\ daily_return < -args.rules.max_daily_drawdown
        equity == IF daily_violation THEN a.equity
                  ELSE a.equity + (a.equity \div 100) * daily_return
        peak == PeakOver(Append(a.read, daily_return), one, one)
        floor == IF args.rules.trailing_drawdown THEN peak ELSE one
        violated == \/ daily_violation
                    \/ equity < floor - args.rules.max_total_drawdown * (one \div 100)
        after == [a EXCEPT !.idx = @ + 1, !.daily_return = daily_return,
                           !.extended_returns = ReadOne(@, daily_return),
                           !.read = IF daily_return = 0 THEN @ ELSE Append(@, daily_return),
                           !.month_start_equity = month_start_equity,
                           !.equity = equity, !.violated = violated]
    IN  IF ~violated /\ day = TradingDaysPerMonth - 1
        THEN [after EXCEPT !.monthly_pnl =
                 Append(@, MonthProfit(equity - month_start_equity, args.rules))]
        ELSE after

\* one pass of (for day in range(trading_days_per_month)), with the month's
\* first line before its first day and the month's last lines after its last
\* day or a violation
AccountDay(a, daily_return, args) ==
    LET one == AccountOne(args)
        day == a.idx % TradingDaysPerMonth
        month_start_equity == IF day = 0 THEN a.equity ELSE a.month_start_equity
        daily_violation == /\ args.rules.max_daily_drawdown > 0
                           /\ daily_return < -args.rules.max_daily_drawdown
        equity == IF daily_violation THEN a.equity
                  ELSE a.equity + (a.equity \div 100) * daily_return
        violated == \/ daily_violation
                    \/ equity < one - args.rules.max_total_drawdown * (one \div 100)
        after == [a EXCEPT !.idx = @ + 1, !.daily_return = daily_return,
                           !.extended_returns = ReadOne(@, daily_return),
                           !.read = IF daily_return = 0 THEN @ ELSE Append(@, daily_return),
                           !.month_start_equity = month_start_equity,
                           !.equity = equity, !.violated = violated]
    IN  IF ~violated /\ day = TradingDaysPerMonth - 1
        THEN [after EXCEPT !.monthly_pnl =
                 Append(@, MonthProfit(equity - month_start_equity, args.rules))]
        ELSE after

NoAccountTally == [trials |-> 0, violation_count |-> 0, monthly_profits |-> <<>>]

\* the lines after the loop over the months
AccountTally(tally, a) ==
    [trials |-> tally.trials + 1,
     violation_count |-> IF a.violated THEN tally.violation_count + 1
                         ELSE tally.violation_count,
     monthly_profits |-> Append(tally.monthly_profits,
                                IF a.violated /\ a.monthly_pnl = <<>> THEN 0
                                ELSE SumSeq(a.monthly_pnl))]

\* _simulate_funded_account up to the first day of the first trial
SimulateFundedAccount(returns, rule_record, n_sims) ==
    /\ accountPc = "idle"
    /\ accountCall' = [daily_returns |-> returns, rules |-> rule_record,
                       n_simulations |-> n_sims]
    /\ account' = AccountStart(accountCall')
    /\ accountPc' = "walking"
    /\ UNCHANGED <<accountTally, accountReport>>
    /\ UNCHANGED otherThanAccount

\* one day of a trial
FundedDay(daily_return) ==
    /\ accountPc = "walking"
    /\ ~account.violated
    /\ account.idx < TotalDays
    /\ daily_return \in UnreadReturns(account)
    /\ account' = AccountDay(account, daily_return, accountCall)
    /\ UNCHANGED <<accountPc, accountCall, accountTally, accountReport>>
    /\ UNCHANGED otherThanAccount

\* the end of a trial: its count and its profit, then the next trial, or the
\* returned dict after the last one
FundedTrialEnd ==
    /\ accountPc = "walking"
    /\ account.violated \/ account.idx = TotalDays
    /\ accountTally' = AccountTally(accountTally, account)
    /\ IF accountTally'.trials < accountCall.n_simulations
       THEN /\ account' = AccountStart(accountCall)
            /\ UNCHANGED <<accountPc, accountReport>>
       ELSE /\ accountReport' = <<FundedReport(accountCall.n_simulations,
                                              accountTally'.violation_count,
                                              accountTally'.monthly_profits)>>
            /\ accountPc' = "done"
            /\ UNCHANGED account
    /\ UNCHANGED accountCall
    /\ UNCHANGED otherThanAccount

AccountIdle ==
    /\ accountPc = "idle"
    /\ accountCall = None
    /\ account = None
    /\ accountTally = NoAccountTally
    /\ accountReport = None

\* inputs: a year of returns, flat but for the listed days; half a year (tiled
\* twice); 200 days (tiled twice and cut at 252); a single flat day
YearOfReturns(values) == [len |-> TotalDays, at |-> {<<i, values[i]>> : i \in 1..Len(values)}]
FundedReturnArrays ==
    {YearOfReturns(v) : v \in {<<>>, <<8>>, <<-6>>, <<8, -5>>, <<8, -6>>}}
    \cup {[len |-> 126, at |-> {<<3, -5>>}],
          [len |-> 200, at |-> {<<10, -6>>}],
          [len |-> 1, at |-> {}]}
\* the numbers of trials: several for an array with a day of -6 %, whose trials
\* can end in a violation
SimulationCounts(returns) == IF \E e \in returns.at : e[2] = -6 THEN 1..MaxSims ELSE {1}
\* a record with fixed drawdown limits and one with the trailing flag
FundedRuleRecords ==
    {PROP_FIRM_CONFIGS[Member("service", nv)] : nv \in {<<"FTMO", "ftmo">>, <<"APEX", "apex">>}}

\* ------------------------------------------------ properties: funded account
FundedDays == \E daily_return \in {0} \cup ReturnValues : FundedDay(daily_return)

\* C25: in a funded-account trial the first day that violates the daily or the
\* total drawdown rule ends the trial: no later day or month is simulated, the
\* month containing the violation contributes no profit, the trial's total
\* profit is the sum over the months completed before the violation of
\* (month-end equity minus month-start equity) x account size x profit split,
\* and the trial is counted exactly once in the violation rate; survival rate
\* = 1 - violation rate.
C25_FundedViolation ==
    /\ [](accountPc = "walking" =>
            LET completed == IF account.violated
                             THEN (account.idx - 1) \div TradingDaysPerMonth
                             ELSE account.idx \div TradingDaysPerMonth
                closing == IF ~account.violated /\ account.idx % TradingDaysPerMonth = 0
                           THEN account.equity ELSE account.month_start_equity
            IN  /\ account.violated => ~ENABLED FundedDays
                /\ Len(account.monthly_pnl) = completed
                /\ SumSeq(account.monthly_pnl) =
                       MonthProfit(closing - AccountOne(accountCall), accountCall.rules))
    /\ [][(accountPc = "walking" /\ account'.idx = account.idx + 1) =>
            LET r == account'.daily_return
                one == AccountOne(accountCall)
                daily == /\ accountCall.rules.max_daily_drawdown > 0
                         /\ r < -accountCall.rules.max_daily_drawdown
                grown == account.equity + (account.equity \div 100) * r
                total == ~daily /\ grown < one - accountCall.rules.max_total_drawdown * (one \div 100)
                first == account.idx % TradingDaysPerMonth = 0
                last == account.idx % TradingDaysPerMonth = TradingDaysPerMonth - 1
                start == IF first THEN account.equity ELSE account.month_start_equity
            IN  /\ ~account.violated
                /\ account'.violated = (daily \/ total)
                /\ account'.equity = IF daily THEN account.equity ELSE grown
                /\ account'.monthly_pnl =
                       IF ~daily /\ ~total /\ last
                       THEN Append(account.monthly_pnl,
                                   MonthProfit(grown - start, accountCall.rules))
                       ELSE account.monthly_pnl]_vars
    /\ [][accountTally'.trials = accountTally.trials + 1 =>
            /\ account.violated \/ account.idx = TotalDays
            /\ accountTally'.violation_count =
                   accountTally.violation_count + (IF account.violated THEN 1 ELSE 0)
            /\ accountTally'.monthly_profits =
                   Append(accountTally.monthly_profits, SumSeq(account.monthly_pnl))]_vars
    /\ [](accountPc = "done" =>
            /\ accountTally.trials = accountCall.n_simulations
            /\ accountReport[1].violation_rate =
                   Rat(accountTally.violation_count, accountCall.n_simulations)
            /\ RatEq(accountReport[1].survival_rate,
                     RatSub(RatOne, accountReport[1].violation_rate)))

\* a trial that ended on a violation before the last day, after completed months
\* with a profit, which is the trial's total profit
C25_Witness ==
    /\ accountPc = "done"
    /\ accountCall.n_simulations = 1
    /\ account.violated
    /\ account.idx < TotalDays
    /\ account.monthly_pnl # <<>>
    /\ accountTally.monthly_profits = <<SumSeq(account.monthly_pnl)>>
    /\ accountTally.monthly_profits[1] > 0
    /\ accountReport[1].violation_rate = Rat(1, 1)

\* a trial that was violated in a month in which it had gained: the month's
\* gain is not part of the profit
C25_ForfeitedMonth ==
    /\ accountPc = "done"
    /\ account.violated
    /\ account.equity > account.month_start_equity
    /\ accountTally.monthly_profits = <<0>>

\* two trials of one call, one violated and one not
C25_HalfViolated ==
    /\ accountPc = "done"
    /\ accountCall.n_simulations = 2
    /\ accountReport[1].violation_rate = Rat(1, 2)
    /\ accountReport[1].survival_rate = Rat(1, 2)

\* equity after the given non-zero returns, from 1.0
RECURSIVE EquityOver(_, _)
EquityOver(events, equity) ==
    IF events = <<>> THEN equity
    ELSE EquityOver(Tail(events), equity + (equity \div 100) * Head(events))

\* C26: the funded-account simulation checks the total drawdown only against
\* the fixed threshold 1 minus the total drawdown limit, for every firm: even
\* with the trailing flag set (Apex), a funded trial whose equity rises to a peak
\* and then falls by more than the limit from that peak while staying at or
\* above 1 minus the limit is not a violation.
C26_FixedThreshold ==
    (accountPc # "idle" /\ account.idx >= 1) =>
        LET one == AccountOne(accountCall)
            threshold == one - accountCall.rules.max_total_drawdown * (one \div 100)
            daily == /\ accountCall.rules.max_daily_drawdown > 0
                     /\ account.daily_return < -accountCall.rules.max_daily_drawdown
            n == Len(account.read)
        IN  /\ account.violated <=> (daily \/ EquityOver(account.read, one) < threshold)
            /\ ~daily => account.equity = EquityOver(account.read, one)
            /\ \A k \in 0..(n - 1) : EquityOver(SubSeq(account.read, 1, k), one) >= threshold

\* a complete trial under rules with the trailing flag, not violated, that ended
\* further below its peak than the limit and not below 1 minus the limit
C26_Witness ==
    /\ accountPc = "done"
    /\ accountCall.rules.trailing_drawdown
    /\ ~account.violated
    /\ account.idx = TotalDays
    /\ LET one == AccountOne(accountCall)
           limit == accountCall.rules.max_total_drawdown * (one \div 100)
       IN  /\ PeakOver(account.read, one, one) - account.equity > limit
           /\ account.equity >= one - limit
    /\ accountReport[1].violation_rate = Rat(0, 1)

\* --------------------------------------------------------- specifications

InitPine ==
    /\ llm \in BOOLEAN
    /\ rag \in BOOLEAN
    /\ PineIdle
    /\ ChatIdle
    /\ edge_llm = FALSE
    /\ FeatIdle
    /\ PropIdle
    /\ BacktestIdle
    /\ MonteCarloIdle
    /\ AnalyzeIdle
    /\ RegressionIdle
    /\ TrialIdle
    /\ AccountIdle
    /\ StoreNew

NextPine ==
    \/ \E d \in Descriptions, t \in ScriptTypes, r \in {"ok", "raise"} :
           GeneratePineScript(d, t, r)
    \/ \E o \in Outcomes : GenerateResume(o)
    \/ \E c \in Texts, e \in ErrorMessages, m \in 0..MaxIterations :
           FixCompileErrors(c, e, m)
    \/ \E o \in Outcomes : FixResume(o)
    \/ \E c \in CodesToValidate : ValidatePineScript(c)

SpecPine == InitPine /\ [][NextPine]_vars

InitChat ==
    /\ llm = FALSE
    /\ rag = FALSE
    /\ PineIdle
    /\ ChatIdle
    /\ edge_llm = FALSE
    /\ FeatIdle
    /\ PropIdle
    /\ BacktestIdle
    /\ MonteCarloIdle
    /\ AnalyzeIdle
    /\ RegressionIdle
    /\ TrialIdle
    /\ AccountIdle
    /\ StoreNew

NextChat ==
    \/ \E stream \in BOOLEAN : ChatEndpoint(stream)
    \/ \E c \in ChunkContents : StreamChunk(c)
    \/ StreamEnd
    \/ \E m \in FailureMessages : StreamFail(m)
    \/ \E o \in Outcomes : ChatComplete(o)

SpecChat == InitChat /\ [][NextChat]_vars

InitFeature ==
    /\ llm = FALSE
    /\ rag = FALSE
    /\ PineIdle
    /\ ChatIdle
    /\ edge_llm \in BOOLEAN
    /\ FeatIdle
    /\ PropIdle
    /\ BacktestIdle
    /\ MonteCarloIdle
    /\ AnalyzeIdle
    /\ RegressionIdle
    /\ TrialIdle
    /\ AccountIdle
    /\ StoreNew

NextFeature ==
    \/ \E d \in FeatureDescriptions : ParseFeatureDescription(d)
    \/ \E o \in ReplyOutcomes : ParseFeatureResume(o)

SpecFeature == InitFeature /\ [][NextFeature]_vars
InitProp ==
    /\ llm = FALSE
    /\ rag = FALSE
    /\ PineIdle
    /\ ChatIdle
    /\ edge_llm = FALSE
    /\ FeatIdle
    /\ PropIdle
    /\ BacktestIdle
    /\ MonteCarloIdle
    /\ AnalyzeIdle
    /\ RegressionIdle
    /\ TrialIdle
    /\ AccountIdle
    /\ StoreNew

NextProp ==
    \/ \E r \in DailyReturnSeries, f \in SchemaFirms, n \in 0..MaxSims :
           SimulatePropFirm(r, f, n)
    \/ \E r \in DailyReturnSeries, f \in SchemaFirms \cup ServiceFirms, n \in 0..MaxSims :
           SimulateChallenge(r, f, None, n)
    \/ \E r \in DailyReturnSeries, f \in FirmsWithCustomRules, c \in CustomRuleRecords,
          n \in 0..MaxSims :
           SimulateChallenge(r, f, <<c>>, n)
    \/ \E s \in Arrangements(daily_returns) : PhaseTrial(s)
    \/ PhaseEnd
    \/ \E t \in [violated : BOOLEAN, profit : {-2000, 0, 3000}] : FundedTrial(t)
    \/ FundedEnd

SpecProp == InitProp /\ [][NextProp]_vars
InitBacktest ==
    /\ llm = FALSE
    /\ rag = FALSE
    /\ PineIdle
    /\ ChatIdle
    /\ edge_llm = FALSE
    /\ FeatIdle
    /\ PropIdle
    /\ BacktestIdle
    /\ MonteCarloIdle
    /\ AnalyzeIdle
    /\ RegressionIdle
    /\ TrialIdle
    /\ AccountIdle
    /\ StoreNew

NextBacktestService ==
    \/ \E c \in StrategyCodes, k \in Capitals,
          h \in {None} \cup {<<p>> : p \in PriceSeries} :
           FirstBacktest(c, "SPY", <<2023, 2024>>, k, h)
    \/ \E c \in StrategyCodes, s \in Symbols, d \in DateRanges, k \in Capitals,
          h \in HistoriesAgain :
           NextBacktest(c, s, d, k, h)

SpecBacktest == InitBacktest /\ [][NextBacktestService]_vars

InitMonteCarlo ==
    /\ llm = FALSE
    /\ rag = FALSE
    /\ PineIdle
    /\ ChatIdle
    /\ edge_llm = FALSE
    /\ FeatIdle
    /\ PropIdle
    /\ BacktestIdle
    /\ MonteCarloIdle
    /\ AnalyzeIdle
    /\ RegressionIdle
    /\ TrialIdle
    /\ AccountIdle
    /\ StoreNew

NextMonteCarlo ==
    \/ \E p \in PositiveCounts, s \in BOOLEAN, r \in RuinCounts : AnalyzeDirectly(p, s, r)
    \/ \E f \in SimulationFields, p \in PositiveCounts, s \in BOOLEAN, r \in RuinCounts :
           RunMonteCarlo(f, p, s, r)

SpecMonteCarlo == InitMonteCarlo /\ [][NextMonteCarlo]_vars

InitAnalyze ==
    /\ llm = FALSE
    /\ rag = FALSE
    /\ PineIdle
    /\ ChatIdle
    /\ edge_llm = FALSE
    /\ FeatIdle
    /\ PropIdle
    /\ BacktestIdle
    /\ MonteCarloIdle
    /\ AnalyzeIdle
    /\ RegressionIdle
    /\ TrialIdle
    /\ AccountIdle
    /\ StoreNew

NextAnalyze ==
    \E n \in CleanLengths, m \in IcMeans, s \in IcStds, p \in PValues,
       k \in CleanLengths, a \in CvAccuracies :
        AnalyzeFeature(n, m, s, p, k, a)

SpecAnalyze == InitAnalyze /\ [][NextAnalyze]_vars

InitRegression ==
    /\ llm = FALSE
    /\ rag = FALSE
    /\ PineIdle
    /\ ChatIdle
    /\ edge_llm = FALSE
    /\ FeatIdle
    /\ PropIdle
    /\ BacktestIdle
    /\ MonteCarloIdle
    /\ AnalyzeIdle
    /\ RegressionIdle
    /\ TrialIdle
    /\ AccountIdle
    /\ StoreNew

NextRegression ==
    \E t \in TradeLists, f \in Fits, r \in BOOLEAN, j \in BOOLEAN :
        RunRegressionAnalysis(t, f, r, j)

SpecRegression == InitRegression /\ [][NextRegression]_vars

InitStore ==
    /\ llm = FALSE
    /\ rag = FALSE
    /\ PineIdle
    /\ ChatIdle
    /\ edge_llm = FALSE
    /\ FeatIdle
    /\ PropIdle
    /\ BacktestIdle
    /\ MonteCarloIdle
    /\ AnalyzeIdle
    /\ RegressionIdle
    /\ TrialIdle
    /\ AccountIdle
    /\ StoreNew

NextStore ==
    \/ Construct
    \/ \E n \in ExampleNames, t \in ExampleDescriptions, c \in ExampleCodes,
          d \in ExampleMetadata :
           AddExample(n, t, c, d)
    \/ \E n \in ExampleNames \cup {"never_added"} : GetExampleCode(n)
    \/ Restart

SpecStore == InitStore /\ [][NextStore]_vars

\* one trial of a challenge phase
InitTrial ==
    /\ llm = FALSE
    /\ rag = FALSE
    /\ PineIdle
    /\ ChatIdle
    /\ edge_llm = FALSE
    /\ FeatIdle
    /\ PropIdle
    /\ BacktestIdle
    /\ MonteCarloIdle
    /\ AnalyzeIdle
    /\ RegressionIdle
    /\ TrialIdle
    /\ AccountIdle
    /\ StoreNew

NextTrial ==
    \/ \E returns \in DailyReturnSeries, rule_record \in WalkRuleRecords :
       \E profit_target \in PhaseTargets(rule_record), arrangement \in Arrangements(returns) :
           StartTrial(returns, rule_record, profit_target, arrangement)
    \/ TrialStep
    \/ TrialEnd

SpecTrial == InitTrial /\ [][NextTrial]_vars

\* the funded-account simulation
InitFunded ==
    /\ llm = FALSE
    /\ rag = FALSE
    /\ PineIdle
    /\ ChatIdle
    /\ edge_llm = FALSE
    /\ FeatIdle
    /\ PropIdle
    /\ BacktestIdle
    /\ MonteCarloIdle
    /\ AnalyzeIdle
    /\ RegressionIdle
    /\ TrialIdle
    /\ AccountIdle
    /\ StoreNew

NextFunded ==
    \/ \E returns \in FundedReturnArrays, rule_record \in FundedRuleRecords :
       \E n_sims \in SimulationCounts(returns) :
           SimulateFundedAccount(returns, rule_record, n_sims)
    \/ \E daily_return \in {0} \cup ReturnValues : FundedDay(daily_return)
    \/ FundedTrialEnd

SpecFunded == InitFunded /\ [][NextFunded]_vars
====
